---- MODULE Spec2Model ----
(***************************************************************************)
(* Request admission and rate limiting of the botai Telegram relay.        *)
(*                                                                         *)
(* Two specifications share the variables of this module:                  *)
(*   SpecRL  RateLimitService (checkLimit, middleware, admin operations)   *)
(*           driven by a clock;                                            *)
(*   Spec    the text handler (TelegramBot.processTextMessage), the image  *)
(*           handler (createNonBlockingImageHandler) and                   *)
(*           ImageProcessor.processImageAsync, one step per stretch of     *)
(*           code between two suspension points (await).                   *)
(* Time is counted in abstract units; the rule table keeps the shape of    *)
(* the shipped one (which rules define a block, block >= window) with      *)
(* small numbers.                                                          *)
(***************************************************************************)
EXTENDS Integers, Sequences, FiniteSets, TLC

\* ------------------------------------------------------------- bounds
NumUsers == 2
MaxMsgs == 3
MaxRequests == 2
WindowMs == 2
BlockMs == 4
MaxTime == 5
MaxViolations == 2
MaxRuleUpdates == 1

NumCalls == 5
MAX_CONCURRENT_REQUESTS == 2

MaxTextLen == 7
MAX_PAGE_LENGTH == 3

MaxJobAge == 1
NumExecs == 2
MAX_HISTORY == 10
NumJobs == 4
maxConcurrentProcessing == 2

\* imageProcessor: maxRetries: 2, 1000 * Math.pow(2, attempt - 1)
maxRetries == 2
IpBackoffBaseMs == 1000

\* callOpenRouter: while (attempt < 3), 400 * 2 ** (attempt - 1)
MaxAttempts == 3
BackoffBaseMs == 400

Users == 1..NumUsers
Msgs == 1..MaxMsgs

\* SpecRL drives the limiter for one user: the keys of different users are
\* separate map entries
RLUsers == {1}

\* blockedUntil?: number left undefined
NoBlock == -1

\* the action kinds the bot passes to the rate limiter
Actions == {"text_message", "image_processing", "command"}
RLActions == {"text_message", "command"}
Keys == Users \X Actions

VARIABLES
  \* RateLimitService
  limits,        \* Map key -> UserLimitInfo, as a function on the stored keys
  vipUsers,      \* Set<number>
  rules,         \* Record<string, RateLimitRule>
  now,           \* Date.now()
  ruleUpdates,   \* history: updateRule calls made so far
  lastCall,      \* history: the most recent checkLimit call and its result
  limitsNoCleanup, \* history: the limits map as the same calls leave it when cleanup never runs
  nAllowed,      \* history: allowed calls since the key's stored window was started
  \* TelegramBot / image handler / ImageProcessor
  userActiveRequests,  \* keys of Map<number, boolean>
  flagOwner,           \* history: the message whose admission set the user's flag
  processingJobs,      \* job ids of ImageProcessor.processingJobs, one per message
  processingStartTimes, \* ImageProcessor.processingStartTimes: job id -> Date.now() at registration
  pc,                  \* where each message's handler is suspended
  kind,                \* "text" | "image" once the message has arrived
  from,                \* ctx.from.id of the message
  emergencyUnlock,     \* the 3 minute timer of each admitted text message
  requireWorks,        \* whether require() resolves in the build (CommonJS) or throws (ESM)
  work,                \* history: what the handling of each message has done so far
  \* OpenRouterService
  currentRequests,     \* private currentRequests
  requestQueue,        \* private requestQueue, as the sequence of queued calls
  orPc,                \* where each upstream call is suspended
  attempt,             \* callOpenRouter: let attempt
  lastError,           \* callOpenRouter: let lastError (the error's message)
  attemptError,        \* history: the error of the call's most recent attempt
  delays,              \* history: the backoff sleeps of the call, in ms
  rejection,           \* the error callOpenRouter rejected with
  startOrder,          \* history: the calls in the order execute() started them
  lastFromQueue,       \* history: the most recent start was made by processQueue
  \* ImageProcessor (processingJobs is declared above)
  stats,               \* totalProcessed, totalSuccess, totalFailed, activeJobs
  activeCount,         \* p-limit: functions running
  limitQueue,          \* p-limit: functions waiting, in order
  ipPc,                \* where each image job is suspended
  ipAttempt,           \* executeImageProcessing: let attempt
  ipLastError,         \* executeImageProcessing: let lastError (the error's message)
  ipAttemptError,      \* history: the error of the job's most recent attempt
  ipDelays,            \* history: the backoff sleeps of the job, in ms
  ipResult,            \* the ProcessingResult of the job, then how processImageAsync settled
  ipStartOrder,        \* history: the jobs in the order their processing started
  shutdownPc,          \* where ImageProcessor.shutdown() is: "idle", "waiting", "done"
  \* MessageService, one answer
  msgPc,               \* "raw", "formatted", "shown" (sendAnswer has displayed the first page)
  msgRaw,              \* the text handed to sendAnswer
  msgFormatted,        \* formatResponse(text)
  msgPages,            \* splitMessage(formatted)
  paginationState,     \* the entry of paginationStates for the answer, or NoState
  displayed,           \* the text the answer's message shows
  cbAnswer,            \* what the last answerCbQuery signalled
  \* one failing text request, from callOpenRouter to the text the user sees
  errPc,               \* "calling", "sleep", "threw", "shown"
  errAttempt,          \* callOpenRouter's attempt
  errLast,             \* the message of callOpenRouter's lastError
  errBodies,           \* the bodies of the 4xx responses received so far
  userText,            \* the text edited into the status message
  lastContent,         \* history: choices[0].message.content of the last attempt's ok response
  answer,              \* what callOpenRouter returned
  \* executions of executeImageProcessing for one user, and the user's history
  exPc,                \* "idle", "racing", "sleep", "done"
  exAttempt,           \* the loop variable attempt
  exPending,           \* the attempts whose callOpenRouter promise has not settled
  exTimedOut,          \* history: the attempts whose timeout won the race
  exResult,            \* the ProcessingResult returned
  exAppended,          \* history: the appendToHistory calls each execution made, by role
  userHistory          \* userHistories.get(userId)

rlVars == <<limits, vipUsers, rules, now, ruleUpdates, lastCall, nAllowed, limitsNoCleanup>>
admVars == <<userActiveRequests, flagOwner, processingJobs, processingStartTimes, pc, kind, from,
             emergencyUnlock, requireWorks, work>>
orVars == <<currentRequests, requestQueue, orPc, attempt, lastError, attemptError,
            delays, rejection, startOrder, lastFromQueue>>
ipVars == <<stats, activeCount, limitQueue, ipPc, ipAttempt, ipLastError, ipAttemptError,
            ipDelays, ipResult, ipStartOrder, shutdownPc>>
admOther == <<userActiveRequests, flagOwner, pc, kind, from, emergencyUnlock, requireWorks, work>>
errVars == <<errPc, errAttempt, errLast, errBodies, userText, lastContent, answer>>
exVars == <<exPc, exAttempt, exPending, exTimedOut, exResult, exAppended, userHistory>>
msgVars == <<msgPc, msgRaw, msgFormatted, msgPages, paginationState, displayed, cbAnswer, errVars, exVars>>
svcVars == <<orVars, ipVars, msgVars>>
vars == <<rlVars, admVars, svcVars>>

\* --------------------------------------- ImageProcessor.processingStartTimes
\* this.processingStartTimes.set(jobId, Date.now())
StartTimeSet(ts, j, t) == [x \in DOMAIN ts \cup {j} |-> IF x = j THEN t ELSE ts[x]]

\* this.processingStartTimes.delete(jobId), for each of the jobs
StartTimesDelete(ts, js) == [x \in DOMAIN ts \ js |-> ts[x]]

\* mutant: a job is stale from the moment its age reaches maxAge
StaleJobs_Inclusive(ts, t) == {j \in DOMAIN ts : t - ts[j] >= MaxJobAge}

\* now - startTime > maxAge
StaleJobs(ts, t) == {j \in DOMAIN ts : t - ts[j] > MaxJobAge}

\* this.stats.activeJobs = Math.max(0, this.stats.activeJobs - 1), once per cleared job
RECURSIVE ActiveAfterClear(_, _)
ActiveAfterClear(a, n) ==
  IF n = 0 THEN a ELSE ActiveAfterClear(IF a - 1 > 0 THEN a - 1 ELSE 0, n - 1)

\* ------------------------------------------------- RateLimitService.rules
Rule(m, w, b) == [maxRequests |-> m, windowMs |-> w, blockDurationMs |-> b]

DefaultRules ==
  [a \in Actions \cup {"global"} |->
     CASE a = "text_message"     -> Rule(MaxRequests, WindowMs, BlockMs)
       [] a = "image_processing" -> Rule(MaxRequests, WindowMs, BlockMs)
       [] a = "command"          -> Rule(MaxRequests, WindowMs, NoBlock)
       [] OTHER                  -> Rule(MaxRequests, WindowMs, BlockMs)]

\* const rule = this.rules[action] || this.rules.global
RuleOf(rs, a) == IF a \in DOMAIN rs THEN rs[a] ELSE rs["global"]

\* ------------------------------------------ RateLimitService.checkLimit
HasWindow(ls, k) == k \in DOMAIN ls

\* mutant: the block still holds at blockedUntil itself
IsBlocked_Inclusive(ls, k, t) ==
  /\ HasWindow(ls, k)
  /\ ls[k].blockedUntil # NoBlock
  /\ ls[k].blockedUntil # 0
  /\ t <= ls[k].blockedUntil

\* userLimit?.blockedUntil && now < userLimit.blockedUntil
IsBlocked(ls, k, t) ==
  /\ HasWindow(ls, k)
  /\ ls[k].blockedUntil # NoBlock
  /\ ls[k].blockedUntil # 0
  /\ t < ls[k].blockedUntil

\* mutant: the window is renewed at its reset time already
WindowExpired_Inclusive(ls, k, t) == ~HasWindow(ls, k) \/ t >= ls[k].resetTime

\* !userLimit || now > userLimit.resetTime
WindowExpired(ls, k, t) == ~HasWindow(ls, k) \/ t > ls[k].resetTime

FreshWindow(ls, k, rule, t) ==
  [count |-> 0,
   resetTime |-> t + rule.windowMs,
   blockedUntil |-> NoBlock,
   violations |-> IF HasWindow(ls, k) THEN ls[k].violations ELSE 0]

\* the window the limit test works on: the stored one, or a fresh one
CurrentWindow(ls, k, rule, t) ==
  IF WindowExpired(ls, k, t) THEN FreshWindow(ls, k, rule, t) ELSE ls[k]

\* mutant: the block is counted from the window's reset time instead of now
BlockAfterViolation_FromReset(w, rule, t) ==
  IF rule.blockDurationMs # NoBlock /\ rule.blockDurationMs # 0
  THEN w.resetTime + rule.blockDurationMs
  ELSE w.blockedUntil

\* if (rule.blockDurationMs) userLimit.blockedUntil = now + rule.blockDurationMs
BlockAfterViolation(w, rule, t) ==
  IF rule.blockDurationMs # NoBlock /\ rule.blockDurationMs # 0
  THEN t + rule.blockDurationMs
  ELSE w.blockedUntil

\* mutant: remaining computed before the count is incremented
RemainingAfter_BeforeIncrement(w, rule) == rule.maxRequests - w.count

\* remaining: rule.maxRequests - userLimit.count, after count++
RemainingAfter(w, rule) == rule.maxRequests - (w.count + 1)

\* mutant: a rejected call is counted as well
CheckLimitWindow_CountsRejected(ls, k, rule, t) ==
  IF IsBlocked(ls, k, t) THEN ls[k]
  ELSE LET w == CurrentWindow(ls, k, rule, t) IN
       IF w.count >= rule.maxRequests
       THEN [w EXCEPT !.violations = w.violations + 1,
                      !.count = w.count + 1,
                      !.blockedUntil = BlockAfterViolation(w, rule, t)]
       ELSE [w EXCEPT !.count = w.count + 1]

\* the window stored under the key when the call returns
CheckLimitWindow(ls, k, rule, t) ==
  IF IsBlocked(ls, k, t) THEN ls[k]
  ELSE LET w == CurrentWindow(ls, k, rule, t) IN
       IF w.count >= rule.maxRequests
       THEN [w EXCEPT !.violations = w.violations + 1,
                      !.blockedUntil = BlockAfterViolation(w, rule, t)]
       ELSE [w EXCEPT !.count = w.count + 1]

\* the value checkLimit returns
CheckLimitResult(ls, k, rule, t) ==
  IF IsBlocked(ls, k, t)
  THEN [allowed |-> FALSE, remaining |-> 0, resetTime |-> ls[k].resetTime,
        blockedUntil |-> ls[k].blockedUntil]
  ELSE LET w == CurrentWindow(ls, k, rule, t) IN
       IF w.count >= rule.maxRequests
       THEN [allowed |-> FALSE, remaining |-> 0, resetTime |-> w.resetTime,
             blockedUntil |-> BlockAfterViolation(w, rule, t)]
       ELSE [allowed |-> TRUE, remaining |-> RemainingAfter(w, rule),
             resetTime |-> w.resetTime, blockedUntil |-> NoBlock]

\* this.limits.set(key, userLimit)
PutWindow(ls, k, w) ==
  [x \in DOMAIN ls \cup {k} |-> IF x = k THEN w ELSE ls[x]]

DropWindows(ls, ks) == [x \in DOMAIN ls \ ks |-> ls[x]]

\* mutant: a call made during a block records one more violation
CheckLimitStore_CountsBlocked(ls, k, rule, t) ==
  IF IsBlocked(ls, k, t)
  THEN PutWindow(ls, k, [ls[k] EXCEPT !.violations = ls[k].violations + 1])
  ELSE PutWindow(ls, k, CheckLimitWindow(ls, k, rule, t))

\* limits after checkLimit(userId, action) at time t
CheckLimitStore(ls, k, rule, t) ==
  IF IsBlocked(ls, k, t) THEN ls ELSE PutWindow(ls, k, CheckLimitWindow(ls, k, rule, t))

NoCall == [made |-> FALSE]

\* history of one call: what it saw and what it returned
CallRecord(u, a, t) ==
  LET k == <<u, a>> rule == RuleOf(rules, a) IN
  [made |-> TRUE, userId |-> u, action |-> a, at |-> t, rule |-> rule,
   vip |-> u \in vipUsers,
   hadWindow |-> HasWindow(limits, k),
   before |-> IF HasWindow(limits, k) THEN limits[k] ELSE FreshWindow(limits, k, rule, t),
   wasBlocked |-> IsBlocked(limits, k, t),
   wasExpired |-> WindowExpired(limits, k, t),
   allowedBefore |-> nAllowed[k],
   after |-> CheckLimitWindow(limits, k, rule, t),
   result |-> CheckLimitResult(limits, k, rule, t),
   resultNoCleanup |-> CheckLimitResult(limitsNoCleanup, k, rule, t)]

\* allowed calls counted since the stored window was started
CountAllowed(u, a, t) ==
  LET k == <<u, a>> rule == RuleOf(rules, a)
      base == IF ~IsBlocked(limits, k, t) /\ WindowExpired(limits, k, t)
              THEN 0 ELSE nAllowed[k]
  IN IF CheckLimitResult(limits, k, rule, t).allowed THEN base + 1 ELSE base

\* the violations counter is unbounded in the program: the model stops calling
\* once a key has collected MaxViolations
CallInBounds(u, a) ==
  HasWindow(limits, <<u, a>>) => limits[<<u, a>>].violations < MaxViolations

\* checkLimit(userId, action): state change and history
CheckLimit(u, a) ==
  /\ CallInBounds(u, a)
  /\ limits' = CheckLimitStore(limits, <<u, a>>, RuleOf(rules, a), now)
  /\ lastCall' = CallRecord(u, a, now)
  /\ nAllowed' = [nAllowed EXCEPT ![<<u, a>>] = CountAllowed(u, a, now)]
  /\ limitsNoCleanup' = CheckLimitStore(limitsNoCleanup, <<u, a>>, RuleOf(rules, a), now)

\* ------------------------------------- RateLimitService, other operations
\* createMiddleware(action): VIP users pass without a check
MiddlewarePasses(u, a) ==
  u \in vipUsers \/ CheckLimitResult(limits, <<u, a>>, RuleOf(rules, a), now).allowed

MiddlewareCheck(u, a) ==
  IF u \in vipUsers
  THEN UNCHANGED <<limits, lastCall, nAllowed, limitsNoCleanup>>
  ELSE CheckLimit(u, a)

\* mutant: cleanup looks at the reset time only
CleanupKeys_ResetOnly(ls, t) == {k \in DOMAIN ls : t > ls[k].resetTime}

\* cleanup(): now > resetTime && (!blockedUntil || now > blockedUntil)
CleanupKeys(ls, t) ==
  {k \in DOMAIN ls :
     /\ t > ls[k].resetTime
     /\ (ls[k].blockedUntil = NoBlock \/ ls[k].blockedUntil = 0 \/ t > ls[k].blockedUntil)}

\* the rules an administrator may install with updateRule
RuleSet ==
  {Rule(m, WindowMs, b) : m \in {1, MaxRequests}, b \in {NoBlock, 1, WindowMs, BlockMs}}

\* ---------------------------------------------------- SpecRL: actions
\* bot.on('text', createMiddleware('text_message')), bot.command(..., createMiddleware('command'))
RLMiddleware(u, a) ==
  /\ MiddlewareCheck(u, a)
  /\ UNCHANGED <<vipUsers, rules, now, ruleUpdates, admVars>>
  /\ UNCHANGED svcVars

Tick ==
  /\ now < MaxTime
  /\ now' = now + 1
  /\ UNCHANGED <<limits, vipUsers, rules, ruleUpdates, lastCall, nAllowed, limitsNoCleanup, admVars>>
  /\ UNCHANGED svcVars

\* resetUserLimits(userId): every key of the user
ResetUserLimits(u) ==
  /\ \E a \in Actions : HasWindow(limits, <<u, a>>)
  /\ limits' = DropWindows(limits, {k \in DOMAIN limits : k[1] = u})
  /\ limitsNoCleanup' = DropWindows(limitsNoCleanup, {k \in DOMAIN limitsNoCleanup : k[1] = u})
  /\ nAllowed' = [k \in Keys |-> IF k[1] = u THEN 0 ELSE nAllowed[k]]
  /\ lastCall' = NoCall
  /\ UNCHANGED <<vipUsers, rules, now, ruleUpdates, admVars>>
  /\ UNCHANGED svcVars

\* resetUserLimits(userId, action)
ResetUserLimit(u, a) ==
  /\ HasWindow(limits, <<u, a>>)
  /\ limits' = DropWindows(limits, {<<u, a>>})
  /\ limitsNoCleanup' = DropWindows(limitsNoCleanup, {<<u, a>>})
  /\ nAllowed' = [nAllowed EXCEPT ![<<u, a>>] = 0]
  /\ lastCall' = NoCall
  /\ UNCHANGED <<vipUsers, rules, now, ruleUpdates, admVars>>
  /\ UNCHANGED svcVars

\* setInterval(() => rateLimitService.cleanup(), 10 min)
Cleanup ==
  /\ CleanupKeys(limits, now) # {}
  /\ limits' = DropWindows(limits, CleanupKeys(limits, now))
  /\ UNCHANGED limitsNoCleanup
  /\ nAllowed' = [k \in Keys |-> IF k \in CleanupKeys(limits, now) THEN 0 ELSE nAllowed[k]]
  /\ lastCall' = NoCall
  /\ UNCHANGED <<vipUsers, rules, now, ruleUpdates, admVars>>
  /\ UNCHANGED svcVars

AddVipUser(u) ==
  /\ u \notin vipUsers
  /\ vipUsers' = vipUsers \cup {u}
  /\ lastCall' = NoCall
  /\ UNCHANGED <<limits, rules, now, ruleUpdates, nAllowed, limitsNoCleanup, admVars>>
  /\ UNCHANGED svcVars

RemoveVipUser(u) ==
  /\ u \in vipUsers
  /\ vipUsers' = vipUsers \ {u}
  /\ lastCall' = NoCall
  /\ UNCHANGED <<limits, rules, now, ruleUpdates, nAllowed, limitsNoCleanup, admVars>>
  /\ UNCHANGED svcVars

\* updateRule(action, rule): the table entry is replaced
UpdateRule(a, r) ==
  /\ ruleUpdates < MaxRuleUpdates
  /\ rules[a] # r
  /\ rules' = [rules EXCEPT ![a] = r]
  /\ ruleUpdates' = ruleUpdates + 1
  /\ lastCall' = NoCall
  /\ UNCHANGED <<limits, vipUsers, now, nAllowed, limitsNoCleanup, admVars>>
  /\ UNCHANGED svcVars

\* ------------------------------------------------------ OpenRouterService
Calls == 1..NumCalls

\* what an attempt can fail with, one per throwing place of the try block: fetch
\* rejects (abort timer or network), status 429 or >= 500, another 4xx status,
\* a body the schema rejects or whose content is empty
Errors == {"network", "statusRetry", "status4xx", "body"}

NoError == "none"

\* mutant: a call may start while currentRequests equals the cap
HasFreeSlot_Inclusive(n) == n <= MAX_CONCURRENT_REQUESTS

\* this.currentRequests < this.MAX_CONCURRENT_REQUESTS
HasFreeSlot(n) == n < MAX_CONCURRENT_REQUESTS

\* mutant: the queue hands out its newest entry
Shift_Newest(q) == [next |-> q[Len(q)], rest |-> SubSeq(q, 1, Len(q) - 1)]

\* this.requestQueue.shift()
Shift(q) == [next |-> Head(q), rest |-> Tail(q)]

\* mutant: the finally block does not look at the queue
ProcessQueueStarts_Never(q, n) == FALSE

\* processQueue: requestQueue.length > 0 && currentRequests < MAX_CONCURRENT_REQUESTS
ProcessQueueStarts(q, n) == Len(q) > 0 /\ HasFreeSlot(n)

\* mutant: every backoff sleep has the base length
BackoffMs_Constant(a) == BackoffBaseMs

\* const delayMs = 400 * 2 ** (attempt - 1)
BackoffMs(a) == BackoffBaseMs * 2 ^ (a - 1)

\* new Error(`Не удалось получить ответ от OpenRouter: ${message}`)
Wrap(e) == <<"no answer from OpenRouter: ", e>>

\* calls are numbered in the order they are submitted
Submitted(c) == orPc[c] # "new"

\* callOpenRouter -> executeWithConcurrencyLimit: execute() at once, up to the first
\* fetch, or requestQueue.push(execute)
Submit(c) ==
  /\ orPc[c] = "new"
  /\ IF c = 1 THEN TRUE ELSE Submitted(c - 1)
  /\ IF HasFreeSlot(currentRequests)
     THEN /\ currentRequests' = currentRequests + 1
          /\ orPc' = [orPc EXCEPT ![c] = "fetch"]
          /\ startOrder' = Append(startOrder, c)
          /\ lastFromQueue' = FALSE
          /\ UNCHANGED requestQueue
     ELSE /\ requestQueue' = Append(requestQueue, c)
          /\ orPc' = [orPc EXCEPT ![c] = "queued"]
          /\ UNCHANGED <<currentRequests, startOrder, lastFromQueue>>
  /\ UNCHANGED <<attempt, lastError, attemptError, delays, rejection>>
  /\ UNCHANGED <<rlVars, admVars, ipVars, msgVars>>

\* the attempt's fetch, json and parse succeed: return content; the locals of the
\* operation end with it
AttemptSucceeds(c) ==
  /\ orPc[c] = "fetch"
  /\ orPc' = [orPc EXCEPT ![c] = "returned"]
  /\ attempt' = [attempt EXCEPT ![c] = 0]
  /\ lastError' = [lastError EXCEPT ![c] = NoError]
  /\ attemptError' = [attemptError EXCEPT ![c] = NoError]
  /\ delays' = [delays EXCEPT ![c] = <<>>]
  /\ UNCHANGED <<currentRequests, requestQueue, rejection, startOrder, lastFromQueue>>
  /\ UNCHANGED <<rlVars, admVars, ipVars, msgVars>>

\* the attempt throws e; catch: lastError = error, attempt += 1, sleep if attempt < 3;
\* after the loop: throw new Error(wrapped message)
AttemptFails(c, e) ==
  /\ orPc[c] = "fetch"
  /\ attempt' = [attempt EXCEPT ![c] = attempt[c] + 1]
  /\ lastError' = [lastError EXCEPT ![c] = e]
  /\ attemptError' = [attemptError EXCEPT ![c] = e]
  /\ IF attempt[c] + 1 < MaxAttempts
     THEN /\ orPc' = [orPc EXCEPT ![c] = "sleep"]
          /\ delays' = [delays EXCEPT ![c] = Append(delays[c], BackoffMs(attempt[c] + 1))]
          /\ UNCHANGED rejection
     ELSE /\ orPc' = [orPc EXCEPT ![c] = "threw"]
          /\ rejection' = [rejection EXCEPT ![c] = Wrap(e)]
          /\ UNCHANGED delays
  /\ UNCHANGED <<currentRequests, requestQueue, startOrder, lastFromQueue>>
  /\ UNCHANGED <<rlVars, admVars, ipVars, msgVars>>

\* await this.delay(delayMs) resolves: the next attempt's fetch starts
SleepEnds(c) ==
  /\ orPc[c] = "sleep"
  /\ orPc' = [orPc EXCEPT ![c] = "fetch"]
  /\ UNCHANGED <<currentRequests, requestQueue, attempt, lastError, attemptError,
                 delays, rejection, startOrder, lastFromQueue>>
  /\ UNCHANGED <<rlVars, admVars, ipVars, msgVars>>

\* execute(): await operation() settled; resolve or reject, finally currentRequests--
\* and processQueue(), which starts the queue's head up to its first fetch
Settle(c) ==
  /\ orPc[c] \in {"returned", "threw"}
  /\ LET done == IF orPc[c] = "returned" THEN "resolved" ELSE "rejected"
         n == currentRequests - 1
     IN IF ProcessQueueStarts(requestQueue, n)
        THEN /\ currentRequests' = n + 1
             /\ requestQueue' = Shift(requestQueue).rest
             /\ orPc' = [orPc EXCEPT ![c] = done, ![Shift(requestQueue).next] = "fetch"]
             /\ startOrder' = Append(startOrder, Shift(requestQueue).next)
             /\ lastFromQueue' = TRUE
        ELSE /\ currentRequests' = n
             /\ orPc' = [orPc EXCEPT ![c] = done]
             /\ UNCHANGED <<requestQueue, startOrder, lastFromQueue>>
  /\ UNCHANGED <<attempt, lastError, attemptError, delays, rejection>>
  /\ UNCHANGED <<rlVars, admVars, ipVars, msgVars>>

InitOR ==
  /\ currentRequests = 0
  /\ requestQueue = <<>>
  /\ orPc = [c \in Calls |-> "new"]
  /\ attempt = [c \in Calls |-> 0]
  /\ lastError = [c \in Calls |-> NoError]
  /\ attemptError = [c \in Calls |-> NoError]
  /\ delays = [c \in Calls |-> <<>>]
  /\ rejection = [c \in Calls |-> NoError]
  /\ startOrder = <<>>
  /\ lastFromQueue = FALSE

\* --------------------------------------------------------- ImageProcessor
Jobs == 1..NumJobs

\* what an attempt can fail with: the timeout promise wins the race, or
\* callOpenRouter rejects
IpErrors == {"timeout", "upstream"}

NoResult == [state |-> "none"]

\* mutant: a function may start while activeCount equals the limit
LimitHasSlot_Inclusive(n) == n <= maxConcurrentProcessing

\* p-limit: activeCount < concurrency
LimitHasSlot(n) == n < maxConcurrentProcessing

\* mutant: one more attempt is made after the last one
IsLastAttempt_OneMore(a) == a > maxRetries

\* for (attempt = 1; attempt <= maxRetries; attempt++), if (attempt < maxRetries) sleep
IsLastAttempt(a) == a >= maxRetries

\* const delayMs = 1000 * Math.pow(2, attempt - 1)
IpBackoffMs(a) == IpBackoffBaseMs * 2 ^ (a - 1)

\* error: `Не удалось обработать изображение после ${maxRetries} попыток: ${errorMessage}`
IpWrap(e) == <<"image not processed after attempts: ", maxRetries, e>>

\* updateStats(success, processingTime), without the moving average
updateStats(st, success) ==
  [st EXCEPT !.totalProcessed = st.totalProcessed + 1,
             !.totalSuccess = IF success THEN st.totalSuccess + 1 ELSE st.totalSuccess,
             !.totalFailed = IF success THEN st.totalFailed ELSE st.totalFailed + 1]

\* processImageAsync after await processingPromise: updateStats(true, ...) whatever
\* the result says; a result without success throws inside the try block, and the
\* catch block calls updateStats(false, ...)
StatsAfterSettlement(st, result) ==
  IF result.state = "success"
  THEN updateStats(st, TRUE)
  ELSE updateStats(updateStats(st, TRUE), FALSE)

IpSubmitted(j) == ipPc[j] # "new"

\* p-limit starts the head of its queue: activeCount++, the function runs up to the
\* first attempt's await Promise.race
StartHead(n, q) ==
  /\ activeCount' = n + 1
  /\ limitQueue' = Tail(q)
  /\ ipPc' = [ipPc EXCEPT ![Head(q)] = "attempt"]
  /\ ipAttempt' = [ipAttempt EXCEPT ![Head(q)] = 1]
  /\ ipStartOrder' = Append(ipStartOrder, Head(q))

\* processImageAsync up to await processingPromise: the function is handed to
\* p-limit, the job registered, activeJobs++
ProcessImageAsync(j) ==
  /\ ipPc[j] = "new"
  /\ IF j = 1 THEN TRUE ELSE IpSubmitted(j - 1)
  /\ limitQueue' = Append(limitQueue, j)
  /\ processingJobs' = processingJobs \cup {j}
  /\ processingStartTimes' = StartTimeSet(processingStartTimes, j, now)
  /\ stats' = [stats EXCEPT !.activeJobs = stats.activeJobs + 1]
  /\ ipPc' = [ipPc EXCEPT ![j] = "queued"]
  /\ UNCHANGED <<activeCount, ipAttempt, ipLastError, ipAttemptError, ipDelays, ipResult,
                 ipStartOrder>>
  /\ UNCHANGED <<rlVars, orVars, msgVars, admOther, shutdownPc>>

\* p-limit, the microtask after enqueue: a free slot takes the queue's head
LimitStart ==
  /\ limitQueue # <<>>
  /\ LimitHasSlot(activeCount)
  /\ StartHead(activeCount, limitQueue)
  /\ UNCHANGED <<stats, processingJobs, processingStartTimes, ipLastError, ipAttemptError, ipDelays, ipResult>>
  /\ UNCHANGED <<rlVars, orVars, msgVars, admOther, shutdownPc>>

\* callOpenRouter wins the race: return { success: true, ... }
IpAttemptSucceeds(j) ==
  /\ ipPc[j] = "attempt"
  /\ ipPc' = [ipPc EXCEPT ![j] = "returned"]
  /\ ipResult' = [ipResult EXCEPT ![j] = [state |-> "success"]]
  /\ UNCHANGED <<stats, processingJobs, processingStartTimes, activeCount, limitQueue, ipAttempt, ipLastError,
                 ipAttemptError, ipDelays, ipStartOrder>>
  /\ UNCHANGED <<rlVars, orVars, msgVars, admOther, shutdownPc>>

\* the attempt's race rejects with e; catch: lastError = error, sleep unless this was
\* the last attempt, after the loop return { success: false, error }
IpAttemptEndsWith(j, e) ==
  /\ ipLastError' = [ipLastError EXCEPT ![j] = e]
  /\ ipAttemptError' = [ipAttemptError EXCEPT ![j] = e]
  /\ IF IsLastAttempt(ipAttempt[j])
     THEN /\ ipPc' = [ipPc EXCEPT ![j] = "returned"]
          /\ ipResult' = [ipResult EXCEPT ![j] = [state |-> "failure", error |-> IpWrap(e)]]
          /\ UNCHANGED ipDelays
     ELSE /\ ipPc' = [ipPc EXCEPT ![j] = "sleep"]
          /\ ipDelays' = [ipDelays EXCEPT ![j] = Append(ipDelays[j], IpBackoffMs(ipAttempt[j]))]
          /\ UNCHANGED ipResult
  /\ UNCHANGED <<stats, processingJobs, processingStartTimes, activeCount, limitQueue, ipAttempt, ipStartOrder>>
  /\ UNCHANGED <<rlVars, orVars, msgVars, admOther, shutdownPc>>

\* callOpenRouter rejects before the timeout
IpAttemptFails(j) ==
  /\ ipPc[j] = "attempt"
  /\ IpAttemptEndsWith(j, "upstream")

\* mutant: the timer's rejection is not noticed, the attempt keeps waiting
IpAttemptTimesOut_Ignored(j) ==
  /\ ipPc[j] = "attempt"
  /\ UNCHANGED vars

\* setTimeout(() => reject(new Error('Таймаут обработки изображения')), requestTimeout)
\* fires while callOpenRouter is still pending
IpAttemptTimesOut(j) ==
  /\ ipPc[j] = "attempt"
  /\ IpAttemptEndsWith(j, "timeout")

\* await delay(delayMs) resolves: attempt++, the next attempt starts
IpSleepEnds(j) ==
  /\ ipPc[j] = "sleep"
  /\ ipPc' = [ipPc EXCEPT ![j] = "attempt"]
  /\ ipAttempt' = [ipAttempt EXCEPT ![j] = ipAttempt[j] + 1]
  /\ UNCHANGED <<stats, processingJobs, processingStartTimes, activeCount, limitQueue, ipLastError, ipAttemptError,
                 ipDelays, ipResult, ipStartOrder>>
  /\ UNCHANGED <<rlVars, orVars, msgVars, admOther, shutdownPc>>

\* p-limit after the function's promise settled: activeCount--, and the head of the
\* queue, if any, starts
SlotReleased(j) ==
  /\ ipPc[j] = "returned"
  /\ IF limitQueue # <<>>
     THEN /\ activeCount' = activeCount
          /\ limitQueue' = Tail(limitQueue)
          /\ ipPc' = [ipPc EXCEPT ![j] = "released", ![Head(limitQueue)] = "attempt"]
          /\ ipAttempt' = [ipAttempt EXCEPT ![Head(limitQueue)] = 1]
          /\ ipStartOrder' = Append(ipStartOrder, Head(limitQueue))
     ELSE /\ activeCount' = activeCount - 1
          /\ ipPc' = [ipPc EXCEPT ![j] = "released"]
          /\ UNCHANGED <<limitQueue, ipAttempt, ipStartOrder>>
  /\ UNCHANGED <<stats, processingJobs, processingStartTimes, ipLastError, ipAttemptError, ipDelays, ipResult>>
  /\ UNCHANGED <<rlVars, orVars, msgVars, admOther, shutdownPc>>

\* processImageAsync after await processingPromise: statistics, return or throw,
\* finally: processingJobs.delete(jobId), activeJobs--
JobSettles(j) ==
  /\ ipPc[j] = "released"
  /\ ipPc' = [ipPc EXCEPT ![j] = IF ipResult[j].state = "success" THEN "resolved" ELSE "rejected"]
  /\ stats' = [StatsAfterSettlement(stats, ipResult[j]) EXCEPT !.activeJobs = stats.activeJobs - 1]
  /\ processingJobs' = processingJobs \ {j}
  /\ processingStartTimes' = StartTimesDelete(processingStartTimes, {j})
  /\ UNCHANGED <<activeCount, limitQueue, ipAttempt, ipLastError, ipAttemptError, ipDelays,
                 ipResult, ipStartOrder>>
  /\ UNCHANGED <<rlVars, orVars, msgVars, admOther, shutdownPc>>

ipJobVars == <<activeCount, limitQueue, ipPc, ipAttempt, ipLastError, ipAttemptError,
               ipDelays, ipResult, ipStartOrder>>

\* shutdown(): with jobs registered, await Promise.race([allSettled(jobs), delay(30000)]);
\* without, the maps are cleared at once
ShutdownBegins ==
  /\ shutdownPc = "idle"
  /\ IF processingJobs # {}
     THEN /\ shutdownPc' = "waiting"
          /\ UNCHANGED <<processingJobs, processingStartTimes, stats>>
     ELSE /\ shutdownPc' = "done"
          /\ processingJobs' = {}
          /\ processingStartTimes' = <<>>
          /\ stats' = [stats EXCEPT !.activeJobs = 0]
  /\ UNCHANGED ipJobVars
  /\ UNCHANGED <<rlVars, orVars, msgVars, admOther>>

\* the race is over, by the jobs registered at its start having settled or by the
\* 30 s timer: processingJobs.clear(), processingStartTimes.clear(), activeJobs = 0
ShutdownEnds ==
  /\ shutdownPc = "waiting"
  /\ shutdownPc' = "done"
  /\ processingJobs' = {}
  /\ processingStartTimes' = <<>>
  /\ stats' = [stats EXCEPT !.activeJobs = 0]
  /\ UNCHANGED ipJobVars
  /\ UNCHANGED <<rlVars, orVars, msgVars, admOther>>

\* clearStaleJobs(): the stale jobs leave both maps and the counter; their promises,
\* their p-limit slots and their upstream calls are not touched
ClearStaleJobs ==
  /\ processingJobs' = processingJobs \ StaleJobs(processingStartTimes, now)
  /\ processingStartTimes' =
       StartTimesDelete(processingStartTimes, StaleJobs(processingStartTimes, now))
  /\ stats' = [stats EXCEPT !.activeJobs =
                  ActiveAfterClear(@, Cardinality(StaleJobs(processingStartTimes, now)))]
  /\ UNCHANGED ipJobVars
  /\ UNCHANGED <<rlVars, orVars, msgVars, admOther, shutdownPc>>

InitIP ==
  /\ stats = [totalProcessed |-> 0, totalSuccess |-> 0, totalFailed |-> 0, activeJobs |-> 0]
  /\ activeCount = 0
  /\ limitQueue = <<>>
  /\ ipPc = [j \in Jobs |-> "new"]
  /\ ipAttempt = [j \in Jobs |-> 0]
  /\ ipLastError = [j \in Jobs |-> NoError]
  /\ ipAttemptError = [j \in Jobs |-> NoError]
  /\ ipDelays = [j \in Jobs |-> <<>>]
  /\ ipResult = [j \in Jobs |-> NoResult]
  /\ ipStartOrder = <<>>
  /\ shutdownPc = "idle"

\* --------------------------------------------------------- MessageService
\* texts are sequences of characters: a letter, the space, the newline, and one
\* character each for the marker glyph and the separator glyph of stripDecor
SP == " "
NL == "\n"
STAR == "*"
BAR == "-"
Chars == {"a", SP, NL, STAR, BAR}

Texts == UNION {[1..k -> Chars] : k \in 0..MaxTextLen}

\* what String.prototype.trim and \s treat as white space
IsSpace(c) == c \in {SP, NL}

RECURSIVE TrimStart(_)
TrimStart(s) == IF s # <<>> /\ IsSpace(Head(s)) THEN TrimStart(Tail(s)) ELSE s

RECURSIVE TrimEnd(_)
TrimEnd(s) ==
  IF s # <<>> /\ IsSpace(s[Len(s)]) THEN TrimEnd(SubSeq(s, 1, Len(s) - 1)) ELSE s

\* text.trim()
Trim(s) == TrimEnd(TrimStart(s))

\* the first index from i on that holds no white space
RECURSIVE SkipSpace(_, _)
SkipSpace(s, i) == IF i <= Len(s) /\ IsSpace(s[i]) THEN SkipSpace(s, i + 1) ELSE i

\* ^ under the m flag: the start of the text or the position after a newline
AtLineStart(s, i) == IF i = 1 THEN TRUE ELSE s[i - 1] = NL

\* .replace(/^<marker>\s*/gm, ''): one marker at a line start and the white space
\* after it; the scan goes on behind the match
RECURSIVE StripMarkers(_, _)
StripMarkers(s, i) ==
  IF i > Len(s) THEN <<>>
  ELSE IF AtLineStart(s, i) /\ s[i] = STAR
       THEN StripMarkers(s, SkipSpace(s, i + 1))
       ELSE <<s[i]>> \o StripMarkers(s, i + 1)

\* .replace(/<separator>+/g, '')
RemoveBars(s) == SelectSeq(s, LAMBDA c : c # BAR)

\* the first index from i on that holds no newline
RECURSIVE RunEnd(_, _)
RunEnd(s, i) == IF i <= Len(s) /\ s[i] = NL THEN RunEnd(s, i + 1) ELSE i

\* .replace(/\n{3,}/g, '\n\n')
RECURSIVE CollapseBlankLines(_, _)
CollapseBlankLines(s, i) ==
  IF i > Len(s) THEN <<>>
  ELSE IF s[i] = NL
       THEN (IF RunEnd(s, i) - i >= 3 THEN <<NL, NL>> ELSE SubSeq(s, i, RunEnd(s, i) - 1))
              \o CollapseBlankLines(s, RunEnd(s, i))
       ELSE <<s[i]>> \o CollapseBlankLines(s, i + 1)

stripDecor(text) == Trim(CollapseBlankLines(RemoveBars(StripMarkers(text, 1)), 1))

\* formatResponse(text); the response cache returns what this computes
formatResponse(text) == stripDecor(Trim(text))

IsSepAt(s, i, sep) == i + Len(sep) - 1 <= Len(s) /\ SubSeq(s, i, i + Len(sep) - 1) = sep

RECURSIVE SplitFrom(_, _, _, _)
SplitFrom(s, sep, i, cur) ==
  IF i > Len(s) THEN <<cur>>
  ELSE IF IsSepAt(s, i, sep)
       THEN <<cur>> \o SplitFrom(s, sep, i + Len(sep), <<>>)
       ELSE SplitFrom(s, sep, i + 1, Append(cur, s[i]))

\* s.split(sep)
Split(s, sep) == SplitFrom(s, sep, 1, <<>>)

\* mutant: words are joined without the space
JoinWord_NoSpace(wordChunk, word) == wordChunk \o word

\* wordChunk += (wordChunk ? ' ' : '') + word
JoinWord(wordChunk, word) ==
  wordChunk \o (IF wordChunk # <<>> THEN <<SP>> ELSE <<>>) \o word

\* if (chunk) chunks.push(chunk.trim())
PushChunk(chunks, chunk) == IF chunk # <<>> THEN Append(chunks, Trim(chunk)) ELSE chunks

\* splitMessage, the loop over the words of a paragraph longer than a page
RECURSIVE SplitWords(_, _, _)
SplitWords(words, chunks, wordChunk) ==
  IF words = <<>> THEN PushChunk(chunks, wordChunk)
  ELSE IF Len(wordChunk) + Len(Head(words)) + 1 <= MAX_PAGE_LENGTH
       THEN SplitWords(Tail(words), chunks, JoinWord(wordChunk, Head(words)))
       ELSE SplitWords(Tail(words), PushChunk(chunks, wordChunk), Head(words))

\* splitMessage, the loop over the paragraphs
RECURSIVE SplitParagraphs(_, _, _)
SplitParagraphs(paragraphs, chunks, current) ==
  IF paragraphs = <<>> THEN PushChunk(chunks, current)
  ELSE LET paragraph == Head(paragraphs) IN
       IF Len(current) + Len(paragraph) + 2 <= MAX_PAGE_LENGTH
       THEN SplitParagraphs(Tail(paragraphs), chunks,
                            current \o (IF current # <<>> THEN <<NL, NL>> ELSE <<>>) \o paragraph)
       ELSE IF Len(paragraph) > MAX_PAGE_LENGTH
            THEN SplitParagraphs(Tail(paragraphs),
                                 SplitWords(Split(paragraph, <<SP>>), PushChunk(chunks, current), <<>>),
                                 <<>>)
            ELSE SplitParagraphs(Tail(paragraphs), PushChunk(chunks, current), paragraph)

\* splitMessage(text); the split cache returns what this computes
splitMessage(text) ==
  IF Len(text) <= MAX_PAGE_LENGTH THEN <<text>>
  ELSE SplitParagraphs(Split(text, <<NL, NL>>), <<>>, <<>>)

NoState == [stored |-> FALSE]

\* pages[index] of a JavaScript array: undefined outside the array
PageAt(pages, index) ==
  IF index + 1 \in DOMAIN pages THEN pages[index + 1] ELSE <<"undefined">>
Directions == {"prev", "next"}

\* mutant: the upper end of the range is taken inclusive
OutOfRange_Inclusive(nextIndex, pages) == nextIndex < 0 \/ nextIndex > Len(pages)

\* nextIndex < 0 || nextIndex >= state.pages.length
OutOfRange(nextIndex, pages) == nextIndex < 0 \/ nextIndex >= Len(pages)

\* direction === 'next' ? state.currentIndex + 1 : state.currentIndex - 1
NextIndex(state, direction) ==
  IF direction = "next" THEN state.currentIndex + 1 ELSE state.currentIndex - 1

\* sendAnswer(ctx, text, statusMessage): format, split, store the pagination state of
\* a multi-page answer under the status message's id, and show the first page by
\* editing the status message or, if the edit fails, in a new message
SendAnswer(text, edited) ==
  /\ msgPc = "idle"
  /\ msgPc' = "shown"
  /\ msgRaw' = text
  /\ msgFormatted' = formatResponse(text)
  /\ msgPages' = splitMessage(formatResponse(text))
  /\ paginationState' =
       IF Len(splitMessage(formatResponse(text))) = 1 THEN NoState
       ELSE [stored |-> TRUE, pages |-> splitMessage(formatResponse(text)), currentIndex |-> 0]
  /\ displayed' = [in |-> IF edited THEN "status" ELSE "new",
                   text |-> PageAt(splitMessage(formatResponse(text)), 0)]
  /\ cbAnswer' = "none"
  /\ UNCHANGED <<rlVars, admVars, orVars, ipVars, errVars, exVars>>

\* handlePagination(ctx, direction) for a button of the message that shows the answer
HandlePagination(direction) ==
  /\ msgPc = "shown"
  /\ Len(msgPages) > 1
  /\ IF displayed.in # "status" \/ ~paginationState.stored
     THEN /\ cbAnswer' = "not found"
          /\ UNCHANGED <<paginationState, displayed>>
     ELSE IF OutOfRange(NextIndex(paginationState, direction), paginationState.pages)
     THEN /\ cbAnswer' = "no further pages"
          /\ UNCHANGED <<paginationState, displayed>>
     ELSE /\ paginationState' =
               [paginationState EXCEPT !.currentIndex = NextIndex(paginationState, direction)]
          /\ displayed' =
               [displayed EXCEPT
                  !.text = PageAt(paginationState.pages, NextIndex(paginationState, direction))]
          /\ cbAnswer' = "ok"
  /\ UNCHANGED <<msgPc, msgRaw, msgFormatted, msgPages>>
  /\ UNCHANGED <<rlVars, admVars, orVars, ipVars, errVars, exVars>>

InitMsg ==
  /\ msgPc = "idle"
  /\ msgRaw = <<>>
  /\ msgFormatted = <<>>
  /\ msgPages = <<>>
  /\ paginationState = NoState
  /\ displayed = [in |-> "status", text |-> <<>>]
  /\ cbAnswer = "none"

\* ------------------------------------------- error text shown to the user
\* messages are sequences of pieces; a piece stands for a stretch of text, and the
\* pieces "401", "403" and "not available in your region" for themselves
MaxBodyLen == 2
Statuses == {"400", "401", "403", "404", "429", "500"}
BodyPieces == {"detail", "401", "not available in your region"}
Bodies == UNION {[1..k -> BodyPieces] : k \in 1..MaxBodyLen}
NoMessage == <<>>
NoContent == [kind |-> "none"]

\* response.status === 429 || response.status >= 500
IsRetryStatus(status) == status \in {"429", "500"}

\* the Error thrown for a response that is not ok
ResponseError(status, body) ==
  IF IsRetryStatus(status) THEN <<"service returned status ", status>>
  ELSE <<"OpenRouter error: ", status, " ">> \o body

\* the Error thrown after the last attempt
WrapMessage(message) == <<"no answer from OpenRouter: ">> \o message

\* /piece/.test(message), message.includes(piece)
Includes(message, piece) == \E i \in 1..Len(message) : message[i] = piece

\* getFriendlyErrorMessage(message)
getFriendlyErrorMessage(message) ==
  IF Includes(message, "401") THEN <<"authorization problem, check the API key">>
  ELSE IF Includes(message, "403") \/ Includes(message, "not available in your region")
       THEN <<"service unavailable, try later">>
       ELSE <<"error: ">> \o message

\* an attempt of callOpenRouter ends in the catch block
ErrAttemptThrows(message, bodies) ==
  /\ errPc = "calling"
  /\ errLast' = message
  /\ errAttempt' = errAttempt + 1
  /\ errBodies' = errBodies \cup bodies
  /\ errPc' = IF errAttempt + 1 < MaxAttempts THEN "sleep" ELSE "threw"
  /\ lastContent' = NoContent
  /\ UNCHANGED <<userText, answer>>
  /\ UNCHANGED <<rlVars, admVars, orVars, ipVars>>
  /\ UNCHANGED <<msgPc, msgRaw, msgFormatted, msgPages, paginationState, displayed, cbAnswer, exVars>>

\* fetch resolves with a response that is not ok
ResponseNotOk(status, body) ==
  ErrAttemptThrows(ResponseError(status, body),
                   IF IsRetryStatus(status) THEN {} ELSE {body})

\* fetch rejects: network error or the abort timer
FetchFails == ErrAttemptThrows(<<"fetch failed">>, {})

\* the backoff delay ends and the next attempt starts
ErrSleepEnds ==
  /\ errPc = "sleep"
  /\ errPc' = "calling"
  /\ UNCHANGED <<errAttempt, errLast, errBodies, userText, lastContent, answer>>
  /\ UNCHANGED <<rlVars, admVars, orVars, ipVars>>
  /\ UNCHANGED <<msgPc, msgRaw, msgFormatted, msgPages, paginationState, displayed, cbAnswer, exVars>>

\* the catch block of processTextMessage: the error of callOpenRouter is turned
\* into the text that replaces the status message
CatchError ==
  /\ errPc = "threw"
  /\ errPc' = "shown"
  /\ userText' = getFriendlyErrorMessage(WrapMessage(errLast))
  /\ UNCHANGED <<errAttempt, errLast, errBodies, lastContent, answer>>
  /\ UNCHANGED <<rlVars, admVars, orVars, ipVars>>
  /\ UNCHANGED <<msgPc, msgRaw, msgFormatted, msgPages, paginationState, displayed, cbAnswer, exVars>>

\* ------------------------------------------------ content of an ok response
MaxBlockTextLen == 2
MaxBlocks == 2
BlockTypes == {"text", "image_url", "reasoning"}
BlockTexts == UNION {[1..k -> {"a", SP}] : k \in 0..MaxBlockTextLen}

\* z.object({type: z.string(), text: z.string().optional()})
Blocks == [type : BlockTypes, hasText : BOOLEAN, text : BlockTexts]

\* z.union([z.string(), z.array(block)])
Contents ==
  {[kind |-> "string", value |-> t] : t \in BlockTexts}
    \cup {[kind |-> "blocks", blocks |-> b] :
            b \in UNION {[1..k -> {x \in Blocks : x.hasText \/ x.text = <<>>}] : k \in 0..MaxBlocks}}

\* item.text ?? ''
TextOfBlock(b) == IF b.hasText THEN b.text ELSE <<>>

\* content.filter(object).map(item => item.text ?? '').filter(Boolean)
TextParts(blocks) ==
  SelectSeq([i \in 1..Len(blocks) |-> TextOfBlock(blocks[i])], LAMBDA t : t # <<>>)

\* parts.join('\n')
RECURSIVE JoinLines(_)
JoinLines(parts) ==
  IF parts = <<>> THEN <<>>
  ELSE IF Len(parts) = 1 THEN parts[1]
  ELSE Head(parts) \o <<NL>> \o JoinLines(Tail(parts))

\* extractContentText(content)
extractContentText(content) ==
  IF content.kind = "string" THEN content.value
  ELSE Trim(JoinLines(TextParts(content.blocks)))

NoContentError == <<"OpenRouter returned no content">>

\* fetch resolves with an ok response that passes the schema: the text is extracted
\* and trimmed; an empty text throws into the catch block, any other is returned
ResponseOk(content) ==
  /\ errPc = "calling"
  /\ lastContent' = content
  /\ IF Trim(extractContentText(content)) = <<>>
     THEN /\ errLast' = NoContentError
          /\ errAttempt' = errAttempt + 1
          /\ errPc' = IF errAttempt + 1 < MaxAttempts THEN "sleep" ELSE "threw"
          /\ UNCHANGED answer
     ELSE /\ answer' = Trim(extractContentText(content))
          /\ errPc' = "returned"
          /\ UNCHANGED <<errLast, errAttempt>>
  /\ UNCHANGED <<errBodies, userText>>
  /\ UNCHANGED <<rlVars, admVars, orVars, ipVars>>
  /\ UNCHANGED <<msgPc, msgRaw, msgFormatted, msgPages, paginationState, displayed, cbAnswer, exVars>>

InitErr ==
  /\ lastContent = NoContent
  /\ answer = NoMessage
  /\ errPc = "calling"
  /\ errAttempt = 0
  /\ errLast = NoMessage
  /\ errBodies = {}
  /\ userText = NoMessage

\* ------------------------------------ executeImageProcessing and the history
Execs == 1..NumExecs
Attempts == 1..maxRetries

\* appendToHistory: push, then splice(0, length - MAX_HISTORY)
AppendToHistory(h, entry) ==
  IF Len(h) + 1 > MAX_HISTORY
  THEN SubSeq(Append(h, entry), Len(h) + 2 - MAX_HISTORY, Len(h) + 1)
  ELSE Append(h, entry)

\* { role: 'user', content: '(image) ...' } of one attempt
Placeholder(e, a) == [role |-> "user", exec |-> e, attempt |-> a]

\* { role: 'assistant', content: assistantReply }
AssistantEntry(e, a) == [role |-> "assistant", exec |-> e, attempt |-> a]

\* an entry of a text exchange of the same user
TextEntry == [role |-> "text", exec |-> 0, attempt |-> 0]

\* mutant: whatever callOpenRouter resolves with is used, the race over or not
RaceOpen_Always(e, a) == exPc[e] # "done"

\* the Promise.race of attempt a has not settled: the loop is awaiting it
RaceOpen(e, a) == exPc[e] = "racing" /\ exAttempt[e] = a

exFrame == UNCHANGED <<rlVars, admVars, orVars, ipVars, errVars, msgPc, msgRaw, msgFormatted,
                       msgPages, paginationState, displayed, cbAnswer>>

\* the body of the loop up to the await: the placeholder is appended, callOpenRouter
\* is called and raced against the timeout
ExAttemptBegins(e, a) ==
  /\ exAttempt' = [exAttempt EXCEPT ![e] = a]
  /\ userHistory' = AppendToHistory(userHistory, Placeholder(e, a))
  /\ exAppended' = [exAppended EXCEPT ![e].user = @ + 1]
  /\ exPending' = [exPending EXCEPT ![e] = @ \cup {a}]
  /\ exPc' = [exPc EXCEPT ![e] = "racing"]
  /\ UNCHANGED <<exTimedOut, exResult>>
  /\ exFrame

\* executeImageProcessing is called: attempt = 1
ExStarts(e) ==
  /\ exPc[e] = "idle"
  /\ ExAttemptBegins(e, 1)

\* await delay(delayMs) resolves: attempt++
ExSleepEnds(e) ==
  /\ exPc[e] = "sleep"
  /\ ExAttemptBegins(e, exAttempt[e] + 1)

\* catch: lastError = error; pause unless this was the last attempt, else the loop
\* ends and { success: false } is returned
ExCatch(e) ==
  IF IsLastAttempt(exAttempt[e])
  THEN /\ exPc' = [exPc EXCEPT ![e] = "done"]
       /\ exResult' = [exResult EXCEPT ![e] = [state |-> "failure", attempt |-> exAttempt[e]]]
  ELSE /\ exPc' = [exPc EXCEPT ![e] = "sleep"]
       /\ UNCHANGED exResult

\* the callOpenRouter promise of attempt a resolves: if its race is still open the
\* reply is appended and returned, otherwise nobody listens
ExUpstreamResolves(e, a) ==
  /\ a \in exPending[e]
  /\ exPending' = [exPending EXCEPT ![e] = @ \ {a}]
  /\ IF RaceOpen(e, a)
     THEN /\ userHistory' = AppendToHistory(userHistory, AssistantEntry(e, a))
          /\ exAppended' = [exAppended EXCEPT ![e].assistant = @ + 1]
          /\ exResult' = [exResult EXCEPT ![e] = [state |-> "success", attempt |-> a]]
          /\ exPc' = [exPc EXCEPT ![e] = "done"]
     ELSE UNCHANGED <<userHistory, exAppended, exResult, exPc>>
  /\ UNCHANGED <<exAttempt, exTimedOut>>
  /\ exFrame

\* the callOpenRouter promise of attempt a rejects
ExUpstreamRejects(e, a) ==
  /\ a \in exPending[e]
  /\ exPending' = [exPending EXCEPT ![e] = @ \ {a}]
  /\ IF RaceOpen(e, a) THEN ExCatch(e) ELSE UNCHANGED <<exResult, exPc>>
  /\ UNCHANGED <<exAttempt, exTimedOut, exAppended, userHistory>>
  /\ exFrame

\* the timeout timer of the running attempt fires first; callOpenRouter stays pending
ExTimesOut(e) ==
  /\ exPc[e] = "racing"
  /\ exAttempt[e] \in exPending[e]
  /\ exTimedOut' = [exTimedOut EXCEPT ![e] = @ \cup {exAttempt[e]}]
  /\ ExCatch(e)
  /\ UNCHANGED <<exAttempt, exPending, exAppended, userHistory>>
  /\ exFrame

InitEx ==
  /\ exPc = [e \in Execs |-> "idle"]
  /\ exAttempt = [e \in Execs |-> 0]
  /\ exPending = [e \in Execs |-> {}]
  /\ exTimedOut = [e \in Execs |-> {}]
  /\ exResult = [e \in Execs |-> NoResult]
  /\ exAppended = [e \in Execs |-> [user |-> 0, assistant |-> 0]]
  /\ userHistory = <<>>

\* ------------------------------------------------------------ initial state
\* the state after construction, with the VIP set as the administrator left it
Init ==
  /\ limits = <<>>
  /\ limitsNoCleanup = <<>>
  /\ vipUsers \in SUBSET Users
  /\ rules = DefaultRules
  /\ now = 0
  /\ ruleUpdates = 0
  /\ lastCall = NoCall
  /\ nAllowed = [k \in Keys |-> 0]
  /\ userActiveRequests = {}
  /\ flagOwner = [u \in Users |-> 0]
  /\ processingJobs = {}
  /\ processingStartTimes = <<>>
  /\ pc = [m \in Msgs |-> "idle"]
  /\ kind = [m \in Msgs |-> "none"]
  /\ from = [m \in Msgs |-> 0]
  /\ emergencyUnlock = [m \in Msgs |-> "unset"]
  /\ requireWorks \in BOOLEAN
  /\ work = [m \in Msgs |-> {}]
  /\ InitOR
  /\ InitIP
  /\ InitMsg
  /\ InitErr
  /\ InitEx

InitRL == Init /\ requireWorks /\ vipUsers = {}

NextRL ==
  \/ \E u \in RLUsers, a \in RLActions : RLMiddleware(u, a)
  \/ Tick
  \/ \E u \in RLUsers : ResetUserLimits(u)
  \/ \E u \in RLUsers, a \in RLActions : ResetUserLimit(u, a)
  \/ Cleanup
  \/ \E u \in RLUsers : AddVipUser(u)
  \/ \E u \in RLUsers : RemoveVipUser(u)
  \/ \E a \in RLActions, r \in RuleSet : UpdateRule(a, r)

SpecRL == InitRL /\ [][NextRL]_vars

\* ------------------------------------------- single-flight admission
\* ImageProcessor.isProcessingForUser: a job id starts with `${userId}_`
isProcessingForUser(u) == \E j \in processingJobs : from[j] = u

\* TelegramBot.isProcessingImageForUser: require() inside try, false when it throws
isProcessingImageForUser(u) == requireWorks /\ isProcessingForUser(u)

\* isUserRequestActive: (userId) => this.userActiveRequests.has(userId)
isUserRequestActive(u) == u \in userActiveRequests

\* mutant: the text path looks at image jobs only and not at the user's flag
TextBusy_ImageOnly(u) == isProcessingImageForUser(u)

\* processTextMessage: isActive || isProcessingImage
TextBusy(u) == isUserRequestActive(u) \/ isProcessingImageForUser(u)

\* mutant: the image path looks at its own jobs only and not at the registry
ImageBusy_JobsOnly(u) == isProcessingForUser(u)

\* image handler: isUserRequestActive(userId) || imageProcessor.isProcessingForUser(userId)
ImageBusy(u) == isUserRequestActive(u) \/ isProcessingForUser(u)

\* updates are numbered in the order their handling starts
Arrives(m) == pc[m] = "idle" /\ (IF m = 1 THEN TRUE ELSE pc[m - 1] # "idle")

Goto(m, l) == pc' = [pc EXCEPT ![m] = l]

\* what a handler does beyond replying
WorkKinds == {"flag_set", "flag_cleared", "history", "upstream", "job"}

Did(m, ws) == work' = [work EXCEPT ![m] = @ \cup ws]

\* bot.on('text', createMiddleware('text_message')); next() leads to handleTextMessage
TextMiddleware(m, u) ==
  /\ Arrives(m)
  /\ kind' = [kind EXCEPT ![m] = "text"]
  /\ from' = [from EXCEPT ![m] = u]
  /\ MiddlewareCheck(u, "text_message")
  /\ Goto(m, IF MiddlewarePasses(u, "text_message") THEN "t_handler" ELSE "rate_limited")
  /\ UNCHANGED <<vipUsers, rules, now, ruleUpdates, userActiveRequests, flagOwner,
                 processingJobs, processingStartTimes, emergencyUnlock, requireWorks>>
  /\ UNCHANGED svcVars
  /\ UNCHANGED work

\* bot.on('photo', createMiddleware('image_processing')); next() leads to the image handler
ImageMiddleware(m, u) ==
  /\ Arrives(m)
  /\ kind' = [kind EXCEPT ![m] = "image"]
  /\ from' = [from EXCEPT ![m] = u]
  /\ MiddlewareCheck(u, "image_processing")
  /\ Goto(m, IF MiddlewarePasses(u, "image_processing") THEN "i_handler" ELSE "rate_limited")
  /\ UNCHANGED <<vipUsers, rules, now, ruleUpdates, userActiveRequests, flagOwner,
                 processingJobs, processingStartTimes, emergencyUnlock, requireWorks>>
  /\ UNCHANGED svcVars
  /\ UNCHANGED work

\* mutant: the busy branch also removes the user's flag
TextReject_ClearsFlag(m) ==
  /\ pc[m] = "t_handler"
  /\ TextBusy(from[m])
  /\ Goto(m, "busy_rejected")
  /\ userActiveRequests' = userActiveRequests \ {from[m]}
  /\ flagOwner' = [flagOwner EXCEPT ![from[m]] = 0]
  /\ UNCHANGED <<rlVars, processingJobs, processingStartTimes, kind, from, emergencyUnlock, requireWorks>>
  /\ UNCHANGED svcVars
  /\ UNCHANGED work

\* processTextMessage, busy branch: the message is deleted and a warning sent
TextReject(m) ==
  /\ pc[m] = "t_handler"
  /\ TextBusy(from[m])
  /\ Goto(m, "busy_rejected")
  /\ UNCHANGED <<rlVars, userActiveRequests, flagOwner, processingJobs, processingStartTimes, kind, from,
                 emergencyUnlock, requireWorks>>
  /\ UNCHANGED svcVars
  /\ UNCHANGED work

\* processTextMessage from the busy test to the first await: flag set, timer armed
TextAdmit(m) ==
  /\ pc[m] = "t_handler"
  /\ ~TextBusy(from[m])
  /\ userActiveRequests' = userActiveRequests \cup {from[m]}
  /\ flagOwner' = [flagOwner EXCEPT ![from[m]] = m]
  /\ emergencyUnlock' = [emergencyUnlock EXCEPT ![m] = "armed"]
  /\ Goto(m, "t_status")
  /\ UNCHANGED <<rlVars, processingJobs, processingStartTimes, kind, from, requireWorks>>
  /\ UNCHANGED svcVars
  /\ Did(m, {"flag_set"})

\* await replyWithTracking(ctx, status) resolves; the try block starts the upstream call
TextStatusSent(m) ==
  /\ pc[m] = "t_status"
  /\ Goto(m, "t_upstream")
  /\ UNCHANGED <<rlVars, userActiveRequests, flagOwner, processingJobs, processingStartTimes, kind, from,
                 emergencyUnlock, requireWorks>>
  /\ UNCHANGED svcVars
  /\ Did(m, {"history", "upstream"})

\* await replyWithTracking(ctx, status) rejects: it stands before the try block,
\* the exception leaves processTextMessage and the finally block does not run
TextStatusThrows(m) ==
  /\ pc[m] = "t_status"
  /\ Goto(m, "t_crashed")
  /\ UNCHANGED <<rlVars, userActiveRequests, flagOwner, processingJobs, processingStartTimes, kind, from,
                 emergencyUnlock, requireWorks>>
  /\ UNCHANGED svcVars
  /\ UNCHANGED work

\* await callOpenRouter resolves; sendAnswer is awaited
TextUpstreamReturns(m) ==
  /\ pc[m] = "t_upstream"
  /\ Goto(m, "t_answer")
  /\ UNCHANGED <<rlVars, userActiveRequests, flagOwner, processingJobs, processingStartTimes, kind, from,
                 emergencyUnlock, requireWorks>>
  /\ UNCHANGED svcVars
  /\ Did(m, {"history"})

\* await callOpenRouter rejects; the catch block reports the error
TextUpstreamThrows(m) ==
  /\ pc[m] = "t_upstream"
  /\ Goto(m, "t_error")
  /\ UNCHANGED <<rlVars, userActiveRequests, flagOwner, processingJobs, processingStartTimes, kind, from,
                 emergencyUnlock, requireWorks>>
  /\ UNCHANGED svcVars
  /\ UNCHANGED work

\* await sendAnswer rejects; the catch block reports the error
TextAnswerThrows(m) ==
  /\ pc[m] = "t_answer"
  /\ Goto(m, "t_error")
  /\ UNCHANGED <<rlVars, userActiveRequests, flagOwner, processingJobs, processingStartTimes, kind, from,
                 emergencyUnlock, requireWorks>>
  /\ UNCHANGED svcVars
  /\ UNCHANGED work

\* finally: userActiveRequests.delete(userId); clearTimeout(emergencyUnlock)
TextFinally(m) ==
  /\ userActiveRequests' = userActiveRequests \ {from[m]}
  /\ flagOwner' = [flagOwner EXCEPT ![from[m]] = 0]
  /\ emergencyUnlock' = [emergencyUnlock EXCEPT ![m] =
                           IF emergencyUnlock[m] = "armed" THEN "cleared" ELSE emergencyUnlock[m]]
  /\ Goto(m, "t_done")
  /\ Did(m, {"flag_cleared"})

\* await sendAnswer resolves; finally
TextAnswerSent(m) ==
  /\ pc[m] = "t_answer"
  /\ TextFinally(m)
  /\ UNCHANGED <<rlVars, processingJobs, processingStartTimes, kind, from, requireWorks>>
  /\ UNCHANGED svcVars

\* the catch block ends, by return or by an exception of its own reply; finally
TextErrorReported(m) ==
  /\ pc[m] = "t_error"
  /\ TextFinally(m)
  /\ UNCHANGED <<rlVars, processingJobs, processingStartTimes, kind, from, requireWorks>>
  /\ UNCHANGED svcVars

\* mutant: the timer callback logs the timeout and leaves the flag in place
EmergencyUnlock_KeepsFlag(m) ==
  /\ emergencyUnlock[m] = "armed"
  /\ emergencyUnlock' = [emergencyUnlock EXCEPT ![m] = "fired"]
  /\ UNCHANGED <<rlVars, userActiveRequests, flagOwner, processingJobs, processingStartTimes, pc, kind, from,
                 requireWorks>>
  /\ UNCHANGED svcVars
  /\ UNCHANGED work

\* setTimeout(() => this.userActiveRequests.delete(userId), 180_000) fires
EmergencyUnlock(m) ==
  /\ emergencyUnlock[m] = "armed"
  /\ emergencyUnlock' = [emergencyUnlock EXCEPT ![m] = "fired"]
  /\ userActiveRequests' = userActiveRequests \ {from[m]}
  /\ flagOwner' = [flagOwner EXCEPT ![from[m]] = 0]
  /\ UNCHANGED <<rlVars, processingJobs, processingStartTimes, pc, kind, from, requireWorks>>
  /\ UNCHANGED svcVars
  /\ Did(m, {"flag_cleared"})

\* image handler: the user's model does not support images
ImageUnsupported(m) ==
  /\ pc[m] = "i_handler"
  /\ Goto(m, "unsupported")
  /\ UNCHANGED <<rlVars, userActiveRequests, flagOwner, processingJobs, processingStartTimes, kind, from,
                 emergencyUnlock, requireWorks>>
  /\ UNCHANGED svcVars
  /\ UNCHANGED work

\* checkUserRateLimit: rateLimitService.checkLimit(userId, 'image_processing').allowed
checkUserRateLimit(u) ==
  CheckLimitResult(limits, <<u, "image_processing">>, RuleOf(rules, "image_processing"), now).allowed

\* image handler: checkUserRateLimit fails
ImageRateLimited(m) ==
  /\ pc[m] = "i_handler"
  /\ CheckLimit(from[m], "image_processing")
  /\ ~checkUserRateLimit(from[m])
  /\ Goto(m, "rate_limited")
  /\ UNCHANGED <<vipUsers, rules, now, ruleUpdates, userActiveRequests, flagOwner,
                 processingJobs, processingStartTimes, kind, from, emergencyUnlock, requireWorks>>
  /\ UNCHANGED svcVars
  /\ UNCHANGED work

\* image handler: rate check passed, busy branch
ImageReject(m) ==
  /\ pc[m] = "i_handler"
  /\ CheckLimit(from[m], "image_processing")
  /\ checkUserRateLimit(from[m])
  /\ ImageBusy(from[m])
  /\ Goto(m, "busy_rejected")
  /\ UNCHANGED <<vipUsers, rules, now, ruleUpdates, userActiveRequests, flagOwner,
                 processingJobs, processingStartTimes, kind, from, emergencyUnlock, requireWorks>>
  /\ UNCHANGED svcVars
  /\ UNCHANGED work

\* image handler: all checks passed, the status reply is awaited
ImageAccept(m) ==
  /\ pc[m] = "i_handler"
  /\ CheckLimit(from[m], "image_processing")
  /\ checkUserRateLimit(from[m])
  /\ ~ImageBusy(from[m])
  /\ Goto(m, "i_status")
  /\ UNCHANGED <<vipUsers, rules, now, ruleUpdates, userActiveRequests, flagOwner,
                 processingJobs, processingStartTimes, kind, from, emergencyUnlock, requireWorks>>
  /\ UNCHANGED svcVars
  /\ UNCHANGED work

\* await replyWithTracking resolves; tgFileToDataUrl is awaited
ImageStatusSent(m) ==
  /\ pc[m] = "i_status"
  /\ Goto(m, "i_download")
  /\ UNCHANGED <<rlVars, userActiveRequests, flagOwner, processingJobs, processingStartTimes, kind, from,
                 emergencyUnlock, requireWorks>>
  /\ UNCHANGED svcVars
  /\ UNCHANGED work

\* the status reply or the download rejects: the handler's catch block reports it
ImageHandlerThrows(m) ==
  /\ pc[m] \in {"i_status", "i_download"}
  /\ Goto(m, "i_failed")
  /\ UNCHANGED <<rlVars, userActiveRequests, flagOwner, processingJobs, processingStartTimes, kind, from,
                 emergencyUnlock, requireWorks>>
  /\ UNCHANGED svcVars
  /\ UNCHANGED work

\* tgFileToDataUrl resolves; processImageAsync registers the job before its first await
ImageJobRegistered(m) ==
  /\ pc[m] = "i_download"
  /\ processingJobs' = processingJobs \cup {m}
  /\ processingStartTimes' = StartTimeSet(processingStartTimes, m, now)
  /\ Goto(m, "i_job")
  /\ UNCHANGED <<rlVars, userActiveRequests, flagOwner, kind, from, emergencyUnlock,
                 requireWorks>>
  /\ UNCHANGED svcVars
  /\ Did(m, {"job"})

\* processImageAsync, finally: the job's promise settled, processingJobs.delete(jobId)
ImageJobSettles(m) ==
  /\ pc[m] = "i_job"
  /\ processingJobs' = processingJobs \ {m}
  /\ processingStartTimes' = StartTimesDelete(processingStartTimes, {m})
  /\ Goto(m, "i_done")
  /\ UNCHANGED <<rlVars, userActiveRequests, flagOwner, kind, from, emergencyUnlock,
                 requireWorks>>
  /\ UNCHANGED svcVars
  /\ Did(m, {"history", "upstream"})

Next ==
  \/ \E m \in Msgs, u \in Users : TextMiddleware(m, u)
  \/ \E m \in Msgs, u \in Users : ImageMiddleware(m, u)
  \/ \E m \in Msgs : TextReject(m)
  \/ \E m \in Msgs : TextAdmit(m)
  \/ \E m \in Msgs : TextStatusSent(m)
  \/ \E m \in Msgs : TextStatusThrows(m)
  \/ \E m \in Msgs : TextUpstreamReturns(m)
  \/ \E m \in Msgs : TextUpstreamThrows(m)
  \/ \E m \in Msgs : TextAnswerSent(m)
  \/ \E m \in Msgs : TextAnswerThrows(m)
  \/ \E m \in Msgs : TextErrorReported(m)
  \/ \E m \in Msgs : EmergencyUnlock(m)
  \/ \E m \in Msgs : ImageUnsupported(m)
  \/ \E m \in Msgs : ImageRateLimited(m)
  \/ \E m \in Msgs : ImageReject(m)
  \/ \E m \in Msgs : ImageAccept(m)
  \/ \E m \in Msgs : ImageStatusSent(m)
  \/ \E m \in Msgs : ImageHandlerThrows(m)
  \/ \E m \in Msgs : ImageJobRegistered(m)
  \/ \E m \in Msgs : ImageJobSettles(m)

Spec == Init /\ [][Next]_vars

\* timers of the event loop fire unless cleared; nothing else is assumed to progress
FairSpec == Spec /\ \A m \in Msgs : WF_vars(EmergencyUnlock(m))

\* ------------------------------------------------ SpecOR: upstream client
NextOR ==
  \/ \E c \in Calls : Submit(c)
  \/ \E c \in Calls : AttemptSucceeds(c)
  \/ \E c \in Calls, e \in Errors : AttemptFails(c, e)
  \/ \E c \in Calls : SleepEnds(c)
  \/ \E c \in Calls : Settle(c)

InitSvc == Init /\ requireWorks /\ vipUsers = {}

SpecOR == InitSvc /\ [][NextOR]_vars

\* a step of a dispatched call: its network attempt ends (response, error or the
\* abort timer), its backoff timer fires, or the continuation of its settled
\* promise runs
ClientProgress ==
  \E c \in Calls :
    \/ AttemptSucceeds(c)
    \/ \E e \in Errors : AttemptFails(c, e)
    \/ SleepEnds(c)
    \/ Settle(c)

\* the event loop does not leave a pending response, timer or continuation waiting
\* forever; nothing is assumed about which one it serves first, nor about callers
FairSpecOR == SpecOR /\ WF_vars(ClientProgress)

\* ------------------------------- SpecStale: admission with clock and eviction
NextStale ==
  \/ \E m \in Msgs, u \in Users : TextMiddleware(m, u)
  \/ \E m \in Msgs, u \in Users : ImageMiddleware(m, u)
  \/ \E m \in Msgs : TextReject(m)
  \/ \E m \in Msgs : TextAdmit(m)
  \/ \E m \in Msgs : TextStatusSent(m)
  \/ \E m \in Msgs : TextUpstreamReturns(m)
  \/ \E m \in Msgs : TextAnswerSent(m)
  \/ \E m \in Msgs : ImageReject(m)
  \/ \E m \in Msgs : ImageAccept(m)
  \/ \E m \in Msgs : ImageStatusSent(m)
  \/ \E m \in Msgs : ImageJobRegistered(m)
  \/ \E m \in Msgs : ImageJobSettles(m)
  \/ Tick
  \/ ClearStaleJobs

\* the users are VIP: the middleware lets every message through
InitStale == Init /\ requireWorks /\ vipUsers = Users

SpecStale == InitStale /\ [][NextStale]_vars

\* ------------------------------------------------ SpecIP: image processor
NextIP ==
  \/ \E j \in Jobs : ProcessImageAsync(j)
  \/ LimitStart
  \/ \E j \in Jobs : IpAttemptSucceeds(j)
  \/ \E j \in Jobs : IpAttemptFails(j)
  \/ \E j \in Jobs : IpAttemptTimesOut(j)
  \/ \E j \in Jobs : IpSleepEnds(j)
  \/ \E j \in Jobs : SlotReleased(j)
  \/ \E j \in Jobs : JobSettles(j)
  \/ ShutdownBegins
  \/ ShutdownEnds

SpecIP == InitSvc /\ [][NextIP]_vars

\* a step the event loop owes a submitted job: p-limit's microtask, the attempt's
\* timeout timer, the backoff timer, the continuations after the function returned;
\* that callOpenRouter ever settles is not among them
IpProgress ==
  \/ LimitStart
  \/ \E j \in Jobs :
       \/ IpAttemptTimesOut(j)
       \/ IpSleepEnds(j)
       \/ SlotReleased(j)
       \/ JobSettles(j)

FairSpecIP == SpecIP /\ WF_vars(IpProgress)

\* ------------------------------------------------ SpecMsg: one answer
NextMsg ==
  \/ /\ msgPc = "idle"
     /\ \E text \in Texts, edited \in BOOLEAN : SendAnswer(text, edited)
  \/ \E direction \in Directions : HandlePagination(direction)

SpecMsg == InitSvc /\ [][NextMsg]_vars

\* ----------------------------------------- SpecErr: a failing text request
NextErr ==
  \/ \E status \in Statuses, body \in Bodies : ResponseNotOk(status, body)
  \/ FetchFails
  \/ \E content \in Contents : ResponseOk(content)
  \/ ErrSleepEnds
  \/ CatchError

SpecErr == InitSvc /\ [][NextErr]_vars

\* ------------------------------ SpecExec: image executions of one user
\* a text request of the same user appends its message or its answer; the text
\* path looks at userActiveRequests only, so it runs beside an image job
TextAppends ==
  /\ userHistory' = AppendToHistory(userHistory, TextEntry)
  /\ UNCHANGED <<exPc, exAttempt, exPending, exTimedOut, exResult, exAppended>>
  /\ exFrame

NextExec ==
  \/ TextAppends
  \/ \E e \in Execs : ExStarts(e)
  \/ \E e \in Execs : ExSleepEnds(e)
  \/ \E e \in Execs, a \in Attempts : ExUpstreamResolves(e, a)
  \/ \E e \in Execs, a \in Attempts : ExUpstreamRejects(e, a)
  \/ \E e \in Execs : ExTimesOut(e)

SpecExec == InitSvc /\ [][NextExec]_vars

\* -------------------------------------------------- admission claims
\* a text handler between its admission and its finally block
TextRunning(m) == kind[m] = "text" /\ pc[m] \in {"t_status", "t_upstream", "t_answer", "t_error"}

\* a text request from admission until its release (finally, or its safety timer)
TextInFlight(m) == TextRunning(m) /\ emergencyUnlock[m] = "armed"

\* an image request from passing the busy check until its job settles
ImageInFlight(m) == kind[m] = "image" /\ pc[m] \in {"i_status", "i_download", "i_job"}

HeavyInFlight(u) == {m \in Msgs : from[m] = u /\ (TextInFlight(m) \/ ImageInFlight(m))}

\* C1: in every reachable state every user has at most one heavy request in flight
C1_AtMostOneHeavyInFlight ==
  \A u \in Users : Cardinality(HeavyInFlight(u)) <= 1

\* C2: text admission is an atomic test-and-set: a text message handled while the
\* user's flag is set is rejected as busy and changes neither flag nor timers
C2_TextAdmissionAtomic ==
  [][\A m \in Msgs :
       (pc[m] = "t_handler" /\ pc'[m] # "t_handler" /\ from[m] \in userActiveRequests) =>
          /\ pc'[m] = "busy_rejected"
          /\ userActiveRequests' = userActiveRequests
          /\ flagOwner' = flagOwner
          /\ emergencyUnlock' = emergencyUnlock]_vars

C2_Witness ==
  \E m1, m2 \in Msgs :
    /\ m1 # m2
    /\ from[m1] = from[m2]
    /\ TextRunning(m1) /\ flagOwner[from[m1]] = m1
    /\ kind[m2] = "text" /\ pc[m2] = "busy_rejected"

\* C3: an image message that passed the busy check has its user registered as busy
\* (flag or image job) at every suspension point before the job is registered
C3_ImageAcquiresBeforeSuspension ==
  \A m \in Msgs :
    (kind[m] = "image" /\ pc[m] \in {"i_status", "i_download"}) => ImageBusy(from[m])

\* an admitted text request that has not been released: its finally block has not
\* run and its safety timer has not fired
TextUnreleased(t) == kind[t] = "text" /\ emergencyUnlock[t] = "armed"

\* C4: an image message handled while an admitted text message of the same user has
\* not been released is rejected: it is not accepted for processing and no image
\* job is created
C4_ImageRejectedWhileTextUnreleased ==
  [][\A m \in Msgs :
       (pc[m] = "i_handler" /\ pc'[m] # "i_handler"
          /\ \E t \in Msgs : from[t] = from[m] /\ TextUnreleased(t)) =>
             /\ pc'[m] \in {"busy_rejected", "rate_limited", "unsupported"}
             /\ processingJobs' = processingJobs]_vars

\* what the image handler does guarantee: it is the user's registry entry, whoever
\* removes it, that makes the image handler reject
ImageRejectedWhileFlagSet ==
  [][\A m \in Msgs :
       (pc[m] = "i_handler" /\ pc'[m] # "i_handler" /\ from[m] \in userActiveRequests) =>
          /\ pc'[m] \in {"busy_rejected", "rate_limited", "unsupported"}
          /\ processingJobs' = processingJobs
          /\ userActiveRequests' = userActiveRequests]_vars

C4_Witness ==
  \E t, m \in Msgs :
    /\ from[t] = from[m]
    /\ TextRunning(t) /\ pc[t] = "t_upstream" /\ flagOwner[from[t]] = t
    /\ kind[m] = "image" /\ pc[m] = "busy_rejected"
    /\ ~isProcessingForUser(from[m])
    /\ from[m] \in userActiveRequests

\* the handler of an admitted text message has ended
TextHandlerEnded(m) == kind[m] = "text" /\ pc[m] \in {"t_done", "t_crashed"}

\* C5: when the handler of an admitted text request ends, the user's flag is removed
\* and the request's safety timer is cancelled
C5_ReleasedWhenHandlerEnds ==
  \A m \in Msgs :
    TextHandlerEnded(m) => (emergencyUnlock[m] # "armed" /\ flagOwner[from[m]] # m)

\* C6: every flag that is set is eventually removed, and a text message handled when
\* the user has no flag and no registered image job is admitted
C6_NoPermanentLockout ==
  /\ \A u \in Users : (u \in userActiveRequests) ~> (u \notin userActiveRequests)
  /\ [][\A m \in Msgs :
          (pc[m] = "t_handler" /\ pc'[m] # "t_handler"
             /\ from[m] \notin userActiveRequests /\ ~isProcessingForUser(from[m])) =>
               pc'[m] = "t_status"]_vars

\* a flag left behind by a handler that ended without its finally block was removed
\* by the timer, and a later text message of the user was admitted
C6_Witness ==
  \E m1, m2 \in Msgs :
    /\ m1 < m2
    /\ from[m1] = from[m2]
    /\ pc[m1] = "t_crashed" /\ emergencyUnlock[m1] = "fired"
    /\ kind[m2] = "text" /\ pc[m2] = "t_done"
    /\ from[m1] \notin userActiveRequests

\* C7: a checkLimit call for a VIP user is allowed and creates or changes no window,
\* and no message of a VIP user ends rate limited
C7_VipNeverLimited ==
  /\ (lastCall.made /\ lastCall.vip) =>
        LET k == <<lastCall.userId, lastCall.action>> IN
        /\ lastCall.result.allowed
        /\ HasWindow(limits, k) = lastCall.hadWindow
        /\ lastCall.hadWindow => limits[k] = lastCall.before
  /\ \A m \in Msgs : pc[m] = "rate_limited" => from[m] \notin vipUsers

\* the part of C7 about messages alone: no message of a VIP user ends rate limited
C7_VipMessageNeverRateLimited ==
  \A m \in Msgs : pc[m] = "rate_limited" => from[m] \notin vipUsers

\* ------------------------------------------------------ rate limiter claims
LastKey == <<lastCall.userId, lastCall.action>>

\* the most recent operation was a checkLimit call whose window is still stored as it left it
LastCallStored == lastCall.made /\ HasWindow(limits, LastKey)

\* C8: within one window of a key, the N-th allowed checkLimit call returns
\* remaining = maxRequests - N
C8_RemainingIsMaxMinusN ==
  (lastCall.made /\ lastCall.result.allowed) =>
     /\ nAllowed[LastKey] \in 1..lastCall.rule.maxRequests
     /\ lastCall.result.remaining = lastCall.rule.maxRequests - nAllowed[LastKey]

C8_Witness ==
  /\ lastCall.made
  /\ lastCall.result.allowed
  /\ lastCall.rule.maxRequests >= 2
  /\ nAllowed[LastKey] = lastCall.rule.maxRequests
  /\ lastCall.result.remaining = 0

\* the call came after maxRequests allowed calls of the same, still running window
AfterMaxAllowed ==
  /\ lastCall.made
  /\ ~lastCall.wasBlocked
  /\ ~lastCall.wasExpired
  /\ lastCall.allowedBefore = lastCall.rule.maxRequests

C9_WitnessCommand ==
  /\ AfterMaxAllowed
  /\ lastCall.action = "command"
  /\ ruleUpdates = 0
  /\ lastCall.result.blockedUntil = NoBlock

\* C10: a call made while now < blockedUntil is rejected with the stored
\* blockedUntil and changes nothing in the window, also when the window's reset
\* time has passed
C10_BlockedCallChangesNothing ==
  (lastCall.made /\ lastCall.wasBlocked) =>
     /\ ~lastCall.result.allowed
     /\ lastCall.result.blockedUntil = lastCall.before.blockedUntil
     /\ HasWindow(limits, LastKey)
     /\ limits[LastKey] = lastCall.before

C10_Witness ==
  /\ lastCall.made
  /\ lastCall.wasBlocked
  /\ lastCall.wasExpired
  /\ lastCall.at > lastCall.before.resetTime
  /\ lastCall.at < lastCall.before.blockedUntil

\* C11 as stated: every stored window has count <= maxRequests of the rule now
\* configured for its action
C11_CountWithinCurrentMax ==
  \A k \in DOMAIN limits : limits[k].count <= RuleOf(rules, k[2]).maxRequests

\* C11, amended: no operation raises a stored count above the maxRequests now
\* configured; a count above it is one that updateRule left behind by lowering
\* maxRequests, and it does not grow
C11_CountNeverRaisedAboveMax ==
  /\ [][\A k \in DOMAIN limits' :
          \/ limits'[k].count <= RuleOf(rules', k[2]).maxRequests
          \/ (k \in DOMAIN limits /\ limits'[k].count <= limits[k].count)]_vars
  /\ [](ruleUpdates = 0 => C11_CountWithinCurrentMax)

\* a window filled under the old rule is stored with a count above the lowered
\* maxRequests, and a checkLimit call on it was rejected without counting
C11_Witness ==
  /\ lastCall.made
  /\ ruleUpdates > 0
  /\ HasWindow(limits, LastKey)
  /\ limits[LastKey].count > RuleOf(rules, lastCall.action).maxRequests
  /\ ~lastCall.result.allowed
  /\ ~lastCall.wasBlocked

\* ------------------------------------------------- upstream client claims
\* a call that holds a slot: execute() has started and its finally has not run
Running(c) == orPc[c] \in {"fetch", "sleep", "returned", "threw"}

Settled(c) == orPc[c] \in {"resolved", "rejected"}

NumSubmitted == Cardinality({c \in Calls : Submitted(c)})

Min(a, b) == IF a < b THEN a ELSE b

\* C12: currentRequests stays between 0 and the cap, and as long as none of the
\* submitted calls has settled, min(submitted, cap) of them run and the rest wait
C12_ConcurrencyWithinCap ==
  /\ currentRequests \in 0..MAX_CONCURRENT_REQUESTS
  /\ Cardinality({c \in Calls : Running(c)}) <= MAX_CONCURRENT_REQUESTS
  /\ (\A c \in Calls : ~Settled(c)) =>
        /\ Cardinality({c \in Calls : Running(c)}) = Min(NumSubmitted, MAX_CONCURRENT_REQUESTS)
        /\ Len(requestQueue) = NumSubmitted - Min(NumSubmitted, MAX_CONCURRENT_REQUESTS)

\* all calls submitted before any settled: the cap's worth run, the others wait
C12_Witness ==
  /\ \A c \in Calls : Submitted(c) /\ ~Settled(c)
  /\ NumCalls > MAX_CONCURRENT_REQUESTS
  /\ currentRequests = MAX_CONCURRENT_REQUESTS
  /\ Len(requestQueue) = NumCalls - MAX_CONCURRENT_REQUESTS

\* C13: calls start in the order they were submitted, and no call submitted after a
\* waiting call has started or runs
C13_DispatchInSubmissionOrder ==
  /\ \A i, j \in 1..Len(startOrder) : i < j => startOrder[i] < startOrder[j]
  /\ \A c, d \in Calls : (orPc[c] = "queued" /\ c < d) => orPc[d] \in {"new", "queued"}
  /\ \A i, j \in 1..Len(requestQueue) : i < j => requestQueue[i] < requestQueue[j]

\* a call that waited behind another waiting call was started from the queue while
\* a running call is in a backoff sleep and another call still waits
C13_Witness ==
  /\ lastFromQueue
  /\ Len(startOrder) >= MAX_CONCURRENT_REQUESTS + 2
  /\ \E c \in Calls : orPc[c] = "sleep"
  /\ Len(requestQueue) > 0

\* C14: whenever a submitted call is waiting or running, a state follows in which
\* every submitted call has settled and none waits: each call is dispatched and
\* settles
C14_EveryCallSettles ==
  (\E c \in Calls : Submitted(c) /\ ~Settled(c)) ~>
     (requestQueue = <<>> /\ \A c \in Calls : Submitted(c) => Settled(c))

\* all calls settled, the last of them after waiting in the queue
C14_Witness ==
  /\ \A c \in Calls : Settled(c)
  /\ Len(startOrder) = NumCalls
  /\ lastFromQueue
  /\ currentRequests = 0
  /\ requestQueue = <<>>

\* C15: an attempt answered with a 4xx status other than 429 ends the call: no
\* further attempt and no backoff sleep
C15_NoRetryAfter4xx ==
  [][\A c \in Calls :
       (orPc[c] = "fetch" /\ attempt'[c] = attempt[c] + 1 /\ attemptError'[c] = "status4xx") =>
          /\ orPc'[c] = "threw"
          /\ delays'[c] = delays[c]]_vars

\* C16: a call whose attempts all failed made exactly 3 attempts, slept 400 ms after
\* the first and 800 ms after the second failure and not after the third, and
\* rejects with the wrapped message of the last attempt's error; a successful
\* attempt ends the call without a rejection
C16_ThreeAttemptsThenWrappedError ==
  \A c \in Calls :
    /\ orPc[c] \in {"threw", "rejected"} =>
          /\ attempt[c] = 3
          /\ delays[c] = <<400, 800>>
          /\ rejection[c] = Wrap(attemptError[c])
    /\ orPc[c] = "sleep" =>
          /\ attempt[c] \in {1, 2}
          /\ delays[c] = IF attempt[c] = 1 THEN <<400>> ELSE <<400, 800>>
    /\ orPc[c] = "fetch" => Len(delays[c]) = attempt[c] /\ attempt[c] < 3
    /\ orPc[c] \in {"returned", "resolved"} => rejection[c] = NoError

\* one call was rejected after three failed attempts whose last error differs from
\* the earlier one, another returned after a retry
C16_Witness ==
  \E c, d \in Calls :
    /\ orPc[c] = "rejected" /\ rejection[c] = Wrap("body")
    /\ orPc[d] = "resolved"

\* ------------------------------------------------- image processor claims
\* a job whose processing executes: it holds a p-limit slot
Processing(j) == ipPc[j] \in {"attempt", "sleep", "returned"}

IpSettled(j) == ipPc[j] \in {"resolved", "rejected"}

\* C17: at most maxConcurrentProcessing jobs execute their processing at once, jobs
\* start in the order they were submitted, and a job that finds all slots taken
\* starts only in the step in which a running job gives up its slot
C17_AtMostNJobsFifo ==
  /\ [](/\ activeCount \in 0..maxConcurrentProcessing
        /\ Cardinality({j \in Jobs : Processing(j)}) = activeCount
        /\ \A i, k \in 1..Len(ipStartOrder) : i < k => ipStartOrder[i] < ipStartOrder[k]
        /\ \A j, k \in Jobs : (ipPc[j] = "queued" /\ j < k) => ipPc[k] \in {"new", "queued"})
  /\ [][\A j \in Jobs :
          (ipPc[j] = "queued" /\ ipPc'[j] # "queued" /\ activeCount = maxConcurrentProcessing) =>
             /\ limitQueue # <<>> /\ Head(limitQueue) = j
             /\ \E k \in Jobs : ipPc[k] = "returned" /\ ipPc'[k] = "released"]_vars

\* all slots are taken by jobs of which one came from the queue, the job that
\* started last waited for a slot, and another job still waits
C17_Witness ==
  /\ activeCount = maxConcurrentProcessing
  /\ Len(ipStartOrder) > maxConcurrentProcessing
  /\ \E j \in Jobs : ipPc[j] = "released"
  /\ limitQueue # <<>>

\* C18: a job makes at most maxRetries attempts; a job all of whose attempts failed
\* made exactly maxRetries attempts, slept 1000 * 2^(attempt-1) ms after each failed
\* attempt but the last, and fails with the message of the last attempt's error
C18_MaxRetriesAttempts ==
  \A j \in Jobs :
    /\ ipAttempt[j] <= maxRetries
    /\ ipPc[j] \in {"attempt", "sleep"} =>
          /\ ipAttempt[j] >= 1
          /\ Len(ipDelays[j]) = IF ipPc[j] = "sleep" THEN ipAttempt[j] ELSE ipAttempt[j] - 1
    /\ \A i \in 1..Len(ipDelays[j]) : ipDelays[j][i] = 1000 * 2 ^ (i - 1)
    /\ ipResult[j].state = "failure" =>
          /\ ipAttempt[j] = maxRetries
          /\ Len(ipDelays[j]) = maxRetries - 1
          /\ ipResult[j].error = IpWrap(ipAttemptError[j])
    /\ ipPc[j] = "rejected" => ipResult[j].state = "failure"
    /\ ipPc[j] = "resolved" => ipResult[j].state = "success"

\* a job failed after maxRetries attempts, the last of them ended by the timeout,
\* and slept 1000 ms once
C18_Witness ==
  \E j \in Jobs :
    /\ ipPc[j] = "rejected"
    /\ ipAttempt[j] = maxRetries
    /\ ipResult[j].error = IpWrap("timeout")
    /\ ipDelays[j] = <<1000>>

\* C19: whenever a submitted job has not settled, a state follows in which every
\* submitted job has settled and no slot is held, whether or not any upstream
\* call ever returns
C19_EveryJobSettles ==
  (\E j \in Jobs : IpSubmitted(j) /\ ~IpSettled(j)) ~>
     (/\ \A j \in Jobs : IpSubmitted(j) => IpSettled(j)
      /\ activeCount = 0
      /\ limitQueue = <<>>)

\* a job whose attempts all timed out has failed and given up its slot, and the
\* job that waited behind it has started
C19_Witness ==
  \E j, k \in Jobs :
    /\ j < k
    /\ ipPc[j] = "rejected" /\ ipResult[j].error = IpWrap("timeout")
    /\ Len(ipStartOrder) > maxConcurrentProcessing
    /\ ipStartOrder[Len(ipStartOrder)] = k
    /\ Processing(k)

\* C20: the statistics count every settled job once: totalProcessed is the number of
\* settled jobs, totalSuccess the number of jobs that succeeded, totalFailed the
\* number of jobs that failed
C20_StatsCountSettledJobsOnce ==
  /\ stats.totalProcessed = Cardinality({j \in Jobs : IpSettled(j)})
  /\ stats.totalSuccess = Cardinality({j \in Jobs : ipPc[j] = "resolved"})
  /\ stats.totalFailed = Cardinality({j \in Jobs : ipPc[j] = "rejected"})
  /\ stats.totalProcessed = stats.totalSuccess + stats.totalFailed

\* C21: once shutdown has begun, a processImageAsync call neither registers nor
\* queues nor starts a job
C21_NoSubmissionAfterShutdown ==
  [][\A j \in Jobs :
       (shutdownPc # "idle" /\ ipPc[j] = "new") =>
          /\ ipPc'[j] = "new"
          /\ j \notin processingJobs'
          /\ limitQueue' = limitQueue]_vars

\* ------------------------------------------------- MessageService claims
\* C22: every page returned by splitMessage is at most the maximum page length long
C22_EveryPageWithinLimit ==
  msgPc = "shown" =>
    \A i \in 1..Len(msgPages) : Len(msgPages[i]) <= MAX_PAGE_LENGTH

HasParagraphBreak(s) == \E i \in 1..(Len(s) - 1) : s[i] = NL /\ s[i + 1] = NL

\* the two pages are the parts of the text before and after one of its spaces
SplitBetweenWords(pages, text) ==
  \E i \in 2..(Len(text) - 1) :
    /\ text[i] = SP
    /\ pages = <<Trim(SubSeq(text, 1, i - 1)), Trim(SubSeq(text, i + 1, Len(text)))>>

\* C23: a text of exactly the maximum page length gives one page equal to the text;
\* a text one character longer without a paragraph break gives exactly two pages,
\* split between two words
C23_BoundaryLengths ==
  msgPc = "shown" =>
    /\ Len(msgFormatted) = MAX_PAGE_LENGTH => msgPages = <<msgFormatted>>
    /\ (Len(msgFormatted) = MAX_PAGE_LENGTH + 1 /\ ~HasParagraphBreak(msgFormatted)) =>
         SplitBetweenWords(msgPages, msgFormatted)

\* the words of a text: its maximal runs of characters that are not white space
RECURSIVE WordsFrom(_, _, _)
WordsFrom(s, i, cur) ==
  IF i > Len(s) THEN (IF cur = <<>> THEN <<>> ELSE <<cur>>)
  ELSE IF IsSpace(s[i])
       THEN (IF cur = <<>> THEN <<>> ELSE <<cur>>) \o WordsFrom(s, i + 1, <<>>)
       ELSE WordsFrom(s, i + 1, Append(cur, s[i]))

WordsOf(s) == WordsFrom(s, 1, <<>>)

RECURSIVE WordsOfPages(_)
WordsOfPages(pages) ==
  IF pages = <<>> THEN <<>> ELSE WordsOf(Head(pages)) \o WordsOfPages(Tail(pages))

\* the separators splitMessage drops at a page boundary
Separators == {<<SP>>, <<NL, NL>>}

RECURSIVE JoinPages(_, _)
JoinPages(pages, seps) ==
  IF pages = <<>> THEN <<>>
  ELSE IF Len(pages) = 1 THEN pages[1]
  ELSE Head(pages) \o Head(seps) \o JoinPages(Tail(pages), Tail(seps))

\* some choice of a dropped separator per boundary gives the text back
Reconstructs(pages, text) ==
  \E seps \in [1..(Len(pages) - 1) -> Separators] : JoinPages(pages, seps) = text

\* every run of white space in the text is one space, one newline or one blank line
PlainSeparators(s) ==
  \A i \in 1..(Len(s) - 1) :
    (IsSpace(s[i]) /\ IsSpace(s[i + 1])) =>
       /\ s[i] = NL /\ s[i + 1] = NL
       /\ (i > 1 => ~IsSpace(s[i - 1]))
       /\ (i + 2 <= Len(s) => ~IsSpace(s[i + 2]))

\* C24 as stated: the pages hold every word once and in order, none divided, and
\* joining them with the dropped separators gives the formatted text back
C24_PagesReconstructText ==
  msgPc = "shown" =>
    /\ WordsOfPages(msgPages) = WordsOf(msgFormatted)
    /\ Reconstructs(msgPages, msgFormatted)

\* C24: the pages hold every word of the formatted text once and in order, none
\* divided; joining them with the dropped separators gives the formatted text back
\* when its white space is single spaces, single newlines and single blank lines
C24_PagesKeepWords ==
  msgPc = "shown" =>
    /\ WordsOfPages(msgPages) = WordsOf(msgFormatted)
    /\ PlainSeparators(msgFormatted) => Reconstructs(msgPages, msgFormatted)

C24_Witness ==
  /\ msgPc = "shown"
  /\ Len(msgPages) = 3
  /\ PlainSeparators(msgFormatted)
  /\ HasParagraphBreak(msgFormatted)
  /\ \E i \in 1..Len(msgFormatted) : msgFormatted[i] = SP

\* C25: formatting a formatted text changes nothing
C25_FormatIdempotent ==
  msgPc = "shown" => formatResponse(msgFormatted) = msgFormatted

\* C26: a stored pagination state has 0 <= currentIndex <= pages.length - 1, and a
\* navigation that would leave this range changes neither the state nor the
\* displayed message and only signals that there are no further pages
C26_IndexStaysInRange ==
  /\ [](paginationState.stored =>
          /\ 0 <= paginationState.currentIndex
          /\ paginationState.currentIndex <= Len(paginationState.pages) - 1)
  /\ [][\A direction \in Directions :
          (/\ HandlePagination(direction)
           /\ paginationState.stored
           /\ displayed.in = "status"
           /\ \/ NextIndex(paginationState, direction) < 0
              \/ NextIndex(paginationState, direction) > Len(paginationState.pages) - 1)
          => /\ paginationState' = paginationState
             /\ displayed' = displayed
             /\ cbAnswer' = "no further pages"]_vars

C26_Witness ==
  /\ paginationState.stored
  /\ paginationState.currentIndex = Len(paginationState.pages) - 1
  /\ paginationState.currentIndex > 0
  /\ cbAnswer = "no further pages"

\* ------------------------------------------------------ error text claims
\* the pieces of body occur in message, in order and next to each other
ContainsBody(message, body) ==
  \E i \in 1..(Len(message) - Len(body) + 1) :
    SubSeq(message, i, i + Len(body) - 1) = body

\* C27: the text shown to the user for a failed request contains the body of none
\* of the 4xx responses the request received
C27_NoUpstreamBodyShown ==
  errPc = "shown" => \A body \in errBodies : ~ContainsBody(userText, body)

\* ------------------------------------------------------ rejection claims
\* where the handling of a message rejected at admission ends
Rejected == {"rate_limited", "busy_rejected"}

\* C28: a message rejected at admission has caused no upstream call, no image job,
\* no history entry and no change of the active flag; its handling never resumes;
\* and the step that rejects it leaves the flags and the job registry as they were
C28_RejectedCausesNoWork ==
  /\ [](\A m \in Msgs : pc[m] \in Rejected => work[m] = {})
  /\ [][\A m \in Msgs : pc[m] \in Rejected => pc'[m] = pc[m]]_vars
  /\ [][\A m \in Msgs :
          (pc[m] \notin Rejected /\ pc'[m] \in Rejected) =>
             /\ userActiveRequests' = userActiveRequests
             /\ processingJobs' = processingJobs
             /\ work' = work]_vars

C28_Witness ==
  /\ \E m \in Msgs : pc[m] = "busy_rejected"
  /\ \E m \in Msgs : pc[m] = "rate_limited"
  /\ \E m \in Msgs : "upstream" \in work[m]

\* ------------------------------------------------ window renewal claims
\* the call found no window, or one whose reset time lies strictly before the call
LastCallFresh ==
  ~lastCall.hadWindow \/ lastCall.at > lastCall.before.resetTime

\* C29: a checkLimit call on a key that is not blocked starts a fresh window exactly
\* when there is no window or now > resetTime: the call is counted as the first of a
\* window that ends at now + windowMs, keeps the violations and has no blockedUntil;
\* otherwise, also at now = resetTime, the stored window and its count apply
C29_FreshWindowExactlyWhenExpired ==
  (lastCall.made /\ ~lastCall.wasBlocked) =>
     /\ HasWindow(limits, LastKey)
     /\ LastCallFresh =>
          /\ lastCall.result.allowed
          /\ limits[LastKey].count = 1
          /\ limits[LastKey].resetTime = lastCall.at + lastCall.rule.windowMs
          /\ limits[LastKey].violations =
               (IF lastCall.hadWindow THEN lastCall.before.violations ELSE 0)
          /\ limits[LastKey].blockedUntil = NoBlock
          /\ lastCall.result.resetTime = lastCall.at + lastCall.rule.windowMs
     /\ ~LastCallFresh =>
          /\ limits[LastKey].resetTime = lastCall.before.resetTime
          /\ lastCall.result.allowed = (lastCall.before.count < lastCall.rule.maxRequests)
          /\ limits[LastKey].count =
               lastCall.before.count + (IF lastCall.result.allowed THEN 1 ELSE 0)

\* a call made exactly at the reset time of a window that had reached its limit
C29_Witness ==
  /\ lastCall.made
  /\ ~lastCall.wasBlocked
  /\ lastCall.hadWindow
  /\ lastCall.at = lastCall.before.resetTime
  /\ lastCall.before.count = lastCall.rule.maxRequests
  /\ ~lastCall.result.allowed

\* ------------------------------------------------------- cleanup claims
\* the four results of the claim, of the call and of the same call without cleanup
SameResult(r1, r2) ==
  /\ r1.allowed = r2.allowed
  /\ r1.remaining = r2.remaining
  /\ r1.resetTime = r2.resetTime
  /\ r1.blockedUntil = r2.blockedUntil

\* every checkLimit call returns what it returns when cleanup never runs
CleanupTransparent ==
  lastCall.made => SameResult(lastCall.result, lastCall.resultNoCleanup)

\* a cleanup step removes the keys in ks and leaves the other windows as they are
CleanupRemoves(ks) ==
  Cleanup =>
    /\ DOMAIN limits' = DOMAIN limits \ ks
    /\ \A k \in DOMAIN limits' : limits'[k] = limits[k]

RECURSIVE TextsOfTextBlocks(_)
TextsOfTextBlocks(blocks) ==
  IF blocks = <<>> THEN <<>>
  ELSE (IF Head(blocks).type = "text" /\ TextOfBlock(Head(blocks)) # <<>>
        THEN <<TextOfBlock(Head(blocks))>> ELSE <<>>)
       \o TextsOfTextBlocks(Tail(blocks))

\* the answer the claim describes, white space at its ends aside
ClaimedAnswer(content) ==
  IF content.kind = "string" THEN Trim(content.value)
  ELSE Trim(JoinLines(TextsOfTextBlocks(content.blocks)))

\* C31: the answer is the content string, or the newline-joined texts of the blocks
\* of type text only; a content whose text is empty after trimming makes the attempt
\* fail with the no-content error
C31_AnswerFromTextBlocksOnly ==
  /\ errPc = "returned" =>
       /\ answer = ClaimedAnswer(lastContent)
       /\ answer # <<>>
  /\ (lastContent # NoContent /\ ClaimedAnswer(lastContent) = <<>>) =>
       /\ errPc # "returned"
       /\ errLast = NoContentError

\* ------------------------------------------------------- eviction claims
\* a job whose processing goes on though clearStaleJobs took it out of the job map
EvictedRunning(m) == pc[m] = "i_job" /\ m \notin processingJobs

\* C32: clearStaleJobs removes exactly the jobs older than maxAge from the job map
\* and the start-time map and leaves their processing alone; an evicted job that
\* completes still writes to the history and delivers its answer
C32_EvictionLeavesJobRunning ==
  /\ [][ClearStaleJobs =>
          /\ processingJobs' =
               {m \in processingJobs : ~(now - processingStartTimes[m] > MaxJobAge)}
          /\ DOMAIN processingStartTimes' = processingJobs'
          /\ pc' = pc
          /\ work' = work
          /\ userActiveRequests' = userActiveRequests]_vars
  /\ [][\A m \in Msgs :
          (EvictedRunning(m) /\ pc'[m] = "i_done") =>
             {"history", "upstream"} \subseteq work'[m]]_vars

\* an evicted job is about to complete while its user, not reported busy by the
\* job map, has a text request or another image job in flight
C32_Witness ==
  \E m \in Msgs, n \in Msgs :
    /\ m # n
    /\ from[m] = from[n]
    /\ EvictedRunning(m)
    /\ ~isProcessingForUser(from[m]) \/ pc[n] = "i_job"
    /\ \/ pc[n] \in {"t_status", "t_upstream", "t_answer"}
       \/ pc[n] = "i_job" /\ n \in processingJobs

\* callOpenRouter of attempt a settles in this step after its timeout won the race
LateSettle(e, a) == a \in exTimedOut[e] /\ a \in exPending[e] /\ a \notin exPending'[e]

\* C33: the result of an image attempt that lost the race against its timeout is
\* discarded: when its upstream call completes later nothing is appended to the
\* history and the job's result and position stay as they are, and the answer of a
\* job and every assistant entry come from an attempt that never timed out
C33_LateResultDiscarded ==
  /\ [](\A e \in Execs :
         /\ exResult[e].state = "success" => exResult[e].attempt \notin exTimedOut[e]
         /\ \A i \in 1..Len(userHistory) :
              (userHistory[i].role = "assistant" /\ userHistory[i].exec = e)
                => userHistory[i].attempt \notin exTimedOut[e])
  /\ [][\A e \in Execs, a \in Attempts :
          LateSettle(e, a) => /\ userHistory' = userHistory
                              /\ exAppended' = exAppended
                              /\ exResult' = exResult
                              /\ exPc' = exPc]_vars

\* the first attempt timed out, its call completed later, and the second attempt
\* gave the answer
C33_Witness ==
  \E e \in Execs :
    /\ 1 \in exTimedOut[e]
    /\ 1 \notin exPending[e]
    /\ exResult[e].state = "success"
    /\ exResult[e].attempt = 2

\* the entries of one role that execution e has in the history
CountIn(h, role, e) == Cardinality({i \in 1..Len(h) : h[i].role = role /\ h[i].exec = e})

C34_StateUnderDisplayedMessage ==
  msgPc = "shown" =>
    /\ Len(msgPages) > 1 => (paginationState.stored /\ displayed.in = "status")
    /\ Len(msgPages) = 1 => ~paginationState.stored
    /\ cbAnswer # "not found"

\* C35: the upstream client is work-conserving and its counter is exact:
\* currentRequests equals the number of calls dispatched and not yet settled and is
\* never negative, a non-empty queue implies currentRequests is at the cap, and when
\* all submitted calls have settled currentRequests is 0 and the queue is empty
C35_CounterExactAndWorkConserving ==
  /\ currentRequests = Cardinality({c \in Calls : Running(c)})
  /\ currentRequests >= 0
  /\ Len(requestQueue) > 0 => currentRequests = MAX_CONCURRENT_REQUESTS
  /\ (\A c \in Calls : Submitted(c) => Settled(c))
       => (currentRequests = 0 /\ requestQueue = <<>>)

\* a call settled and its slot went to the head of the queue at once, while another
\* call still waits with the counter at the cap
C35_Witness ==
  /\ \E c \in Calls : Settled(c)
  /\ lastFromQueue
  /\ Len(requestQueue) > 0
  /\ currentRequests = MAX_CONCURRENT_REQUESTS
  /\ currentRequests = Cardinality({c \in Calls : Running(c)})

\* message m runs its finally block or its safety timer fires in this step
ClearsOwnFlag(m) ==
  \/ pc[m] # "t_done" /\ pc'[m] = "t_done"
  \/ emergencyUnlock[m] = "armed" /\ emergencyUnlock'[m] = "fired"

\* C36: a user's active flag is cleared only on behalf of the request that set it:
\* whenever a set flag is removed, the step is the finally block or the safety timer
\* of the request that set the flag, never that of an earlier request of the user
C36_FlagClearedByOwnerOnly ==
  [][\A u \in Users :
       (u \in userActiveRequests /\ u \notin userActiveRequests' /\ flagOwner[u] # 0)
         => ClearsOwnFlag(flagOwner[u])]_vars

\* C37: in every reachable state the image processor's activeJobs counter equals the
\* number of entries in the job map and is never negative
C37_ActiveJobsIsMapSize ==
  /\ stats.activeJobs = Cardinality(processingJobs)
  /\ stats.activeJobs >= 0

\* the last call was made at or after the end of a block that the stored window
\* records, under a rule with maxRequests >= 1 and blockDurationMs >= windowMs; a
\* block set under such a rule does not end before the window it was set in
CalledAfterBlock ==
  /\ lastCall.made
  /\ lastCall.rule.maxRequests >= 1
  /\ lastCall.rule.blockDurationMs # NoBlock
  /\ lastCall.rule.blockDurationMs >= lastCall.rule.windowMs
  /\ lastCall.hadWindow
  /\ lastCall.before.blockedUntil # NoBlock
  /\ lastCall.before.blockedUntil >= lastCall.before.resetTime
  /\ lastCall.at >= lastCall.before.blockedUntil

\* the last call was allowed and started a fresh window
AllowedInFreshWindow ==
  /\ lastCall.result.allowed
  /\ lastCall.wasExpired
  /\ lastCall.after.count = 1
  /\ lastCall.after.resetTime = lastCall.at + lastCall.rule.windowMs

\* C38 as stated: under a rule with maxRequests >= 1 and blockDurationMs >= windowMs
\* every call made at a time t >= blockedUntil is allowed and starts a fresh window
C38_AllowedOnceBlockEnded ==
  CalledAfterBlock => AllowedInFreshWindow

\* C38: a block is temporary: under a rule with maxRequests >= 1 and blockDurationMs
\* >= windowMs a call made at t >= blockedUntil is allowed and starts a fresh window
\* whenever t is past the window's reset time, which is so for every t >= blockedUntil
\* if the block ends after the window and for every t > blockedUntil otherwise
C38_AllowedOnceBlockAndWindowEnded ==
  (CalledAfterBlock /\ (\/ lastCall.before.blockedUntil > lastCall.before.resetTime
                        \/ lastCall.at > lastCall.before.blockedUntil))
    => AllowedInFreshWindow

\* the first call at the very end of a block that outlasted its window was allowed
C38_Witness ==
  /\ CalledAfterBlock
  /\ lastCall.at = lastCall.before.blockedUntil
  /\ lastCall.before.blockedUntil > lastCall.before.resetTime
  /\ lastCall.before.count >= lastCall.rule.maxRequests
  /\ AllowedInFreshWindow

\* the image messages of user u that have reached the bot
ImagesOf(u) == {m \in Msgs : kind[m] = "image" /\ from[m] = u}

\* C39: handling one inbound image message of a non-VIP user increases the user's
\* image_processing window count by exactly 1: the count never exceeds the number
\* of image messages the user has sent, and an image message is rejected by rate
\* limiting only when more than maxRequests image messages of the user have arrived
C39_ImageMessageCountedOnce ==
  \A u \in Users \ vipUsers :
    /\ HasWindow(limits, <<u, "image_processing">>)
         => limits[<<u, "image_processing">>].count <= Cardinality(ImagesOf(u))
    /\ \A m \in ImagesOf(u) :
         pc[m] = "rate_limited"
           => Cardinality(ImagesOf(u)) > RuleOf(rules, "image_processing").maxRequests

====
